---- MODULE Spec2Model ----
(***************************************************************************)
(* The generated parser of the "fd" diagram language                       *)
(* (tree-sitter-fd/src/parser.c): the lexer automaton ts_lex, the lex      *)
(* modes, the parse tables, the parse actions and the field maps, driven   *)
(* by the shift-reduce engine that spec.md section 4.3 describes.          *)
(*                                                                         *)
(* A parse call reads an input buffer.  The buffer is either one of the    *)
(* fixed documents of Corpus, or arbitrary bytes: then every byte is drawn *)
(* from Alphabet at the moment the lexer first looks at it, up to MaxLen   *)
(* bytes, so that all inputs over Alphabet of at most MaxLen bytes are     *)
(* explored.  For the fixed documents the engine keeps the whole syntax    *)
(* tree; for arbitrary bytes it keeps, per stack entry, the symbol and the *)
(* production of the node only (keep = FALSE).                             *)
(***************************************************************************)
EXTENDS Integers, Sequences, FiniteSets, TLC

\* ---- bounds of the model
MaxLen == 3        \* number of arbitrary bytes that may follow a beginning

\* ---- macros of tree_sitter/parser.h used by the lexer cases
\* One iteration of the lexer loop yields: whether the case accepted a token
\* (ACCEPT_TOKEN), and how it leaves the case (ADVANCE, SKIP, END_STATE).
ADVANCE(s) == [result |-> FALSE, symbol |-> 0, kind |-> "advance", state |-> s]
SKIP(s) == [result |-> FALSE, symbol |-> 0, kind |-> "skip", state |-> s]
END_STATE == [result |-> FALSE, symbol |-> 0, kind |-> "end", state |-> 0]
ACCEPT_TOKEN(sym, rest) == [rest EXCEPT !.result = TRUE, !.symbol = sym]

\* ---- macros of tree_sitter/parser.h used by the parse tables
STATE_ID(id) == id   \* the macro STATE; the bare word is reserved in TLA+
ACTIONS_ID(id) == id   \* the macro ACTIONS; the bare word is reserved in TLA+
ParseAction(t, s, e, r, y, n, p) ==
  [type |-> t, state |-> s, extra |-> e, repetition |-> r,
   symbol |-> y, child_count |-> n, production_id |-> p]
SHIFT(s) == ParseAction("shift", s, FALSE, FALSE, 0, 0, 0)
SHIFT_REPEAT(s) == ParseAction("shift", s, FALSE, TRUE, 0, 0, 0)
SHIFT_EXTRA == ParseAction("shift", 0, TRUE, FALSE, 0, 0, 0)
RECOVER == ParseAction("recover", 0, FALSE, FALSE, 0, 0, 0)
ACCEPT_INPUT == ParseAction("accept", 0, FALSE, FALSE, 0, 0, 0)
REDUCE(y, n, prec, p) == ParseAction("reduce", 0, FALSE, FALSE, y, n, p)
ENTRY(c, r, a) == [count |-> c, reusable |-> r, actions |-> a]

\* ---- #define constants of parser.c
STATE_COUNT == 94
LARGE_STATE_COUNT == 18
SYMBOL_COUNT == 67
TOKEN_COUNT == 46
FIELD_COUNT == 9
PRODUCTION_ID_COUNT == 10

\* ---- enum ts_symbol_identifiers (ts_builtin_sym_end is the end-of-input symbol 0)
ts_builtin_sym_end == 0
sym_comment == 1
anon_sym_POUND_POUND == 2
anon_sym_COLON == 3
sym_annotation_text == 4
anon_sym_accept == 5
anon_sym_status == 6
anon_sym_priority == 7
anon_sym_tag == 8
anon_sym_style == 9
anon_sym_LBRACE == 10
anon_sym_RBRACE == 11
anon_sym_group == 12
anon_sym_rect == 13
anon_sym_ellipse == 14
anon_sym_path == 15
anon_sym_text == 16
anon_sym_w == 17
anon_sym_h == 18
anon_sym_width == 19
anon_sym_height == 20
anon_sym_fill == 21
anon_sym_stroke == 22
anon_sym_corner == 23
anon_sym_opacity == 24
anon_sym_font == 25
anon_sym_bg == 26
anon_sym_use == 27
anon_sym_layout == 28
anon_sym_shadow == 29
anon_sym_scale == 30
anon_sym_rotate == 31
anon_sym_translate == 32
anon_sym_center_in == 33
anon_sym_offset == 34
anon_sym_ease == 35
anon_sym_duration == 36
anon_sym_EQ == 37
anon_sym_anim == 38
anon_sym_DASH_GT == 39
anon_sym_AT == 40
sym_identifier == 41
sym_number == 42
sym_hex_color == 43
anon_sym_DQUOTE == 44
aux_sym_string_token1 == 45
sym_document == 46
sym_annotation == 47
sym_annotation_typed == 48
sym_annotation_keyword == 49
sym_style_block == 50
sym_node_declaration == 51
sym_node_kind == 52
sym_node_body_item == 53
sym_property == 54
sym_property_name == 55
sym__value_item == 56
sym_key_value_pair == 57
sym_anim_block == 58
sym_anim_trigger == 59
sym_constraint_line == 60
sym_node_id == 61
sym_string == 62
aux_sym_document_repeat1 == 63
aux_sym_style_block_repeat1 == 64
aux_sym_node_declaration_repeat1 == 65
aux_sym_property_repeat1 == 66

\* ---- enum ts_field_identifiers
field_constraint_type == 1
field_id == 2
field_inline_text == 3
field_key == 4
field_kind == 5
field_name == 6
field_target == 7
field_trigger == 8
field_value == 9

\* C10 mutant: the slice of production 4 is one entry short and loses field kind
ts_field_map_slices_C10 ==
  0 :> [index |-> 0, length |-> 0] @@
  1 :> [index |-> 0, length |-> 1] @@
  2 :> [index |-> 1, length |-> 2] @@
  3 :> [index |-> 3, length |-> 1] @@
  4 :> [index |-> 4, length |-> 1] @@
  5 :> [index |-> 6, length |-> 2] @@
  6 :> [index |-> 8, length |-> 1] @@
  7 :> [index |-> 9, length |-> 3] @@
  8 :> [index |-> 12, length |-> 2] @@
  9 :> [index |-> 14, length |-> 1]

\* C27 mutant: the slice of production 4 takes a third entry, the first of
\* production 5: child 1 is bound to field id and to field inline_text
ts_field_map_slices_C27 ==
  0 :> [index |-> 0, length |-> 0] @@
  1 :> [index |-> 0, length |-> 1] @@
  2 :> [index |-> 1, length |-> 2] @@
  3 :> [index |-> 3, length |-> 1] @@
  4 :> [index |-> 4, length |-> 3] @@
  5 :> [index |-> 6, length |-> 2] @@
  6 :> [index |-> 8, length |-> 1] @@
  7 :> [index |-> 9, length |-> 3] @@
  8 :> [index |-> 12, length |-> 2] @@
  9 :> [index |-> 14, length |-> 1]

\* ---- ts_field_map_slices: production id -> (index, length) into ts_field_map_entries
ts_field_map_slices ==
  0 :> [index |-> 0, length |-> 0] @@
  1 :> [index |-> 0, length |-> 1] @@
  2 :> [index |-> 1, length |-> 2] @@
  3 :> [index |-> 3, length |-> 1] @@
  4 :> [index |-> 4, length |-> 2] @@
  5 :> [index |-> 6, length |-> 2] @@
  6 :> [index |-> 8, length |-> 1] @@
  7 :> [index |-> 9, length |-> 3] @@
  8 :> [index |-> 12, length |-> 2] @@
  9 :> [index |-> 14, length |-> 1]

\* C5 mutant: field target of a constraint line is bound to the last child,
\* the value after the colon
ts_field_map_entries_C5 ==
  0 :> [field_id |-> field_kind, child_index |-> 0, inherited |-> FALSE] @@
  1 :> [field_id |-> field_key, child_index |-> 0, inherited |-> FALSE] @@
  2 :> [field_id |-> field_value, child_index |-> 2, inherited |-> FALSE] @@
  3 :> [field_id |-> field_name, child_index |-> 1, inherited |-> FALSE] @@
  4 :> [field_id |-> field_id, child_index |-> 1, inherited |-> FALSE] @@
  5 :> [field_id |-> field_kind, child_index |-> 0, inherited |-> FALSE] @@
  6 :> [field_id |-> field_inline_text, child_index |-> 1, inherited |-> FALSE] @@
  7 :> [field_id |-> field_kind, child_index |-> 0, inherited |-> FALSE] @@
  8 :> [field_id |-> field_name, child_index |-> 0, inherited |-> FALSE] @@
  9 :> [field_id |-> field_id, child_index |-> 1, inherited |-> FALSE] @@
  10 :> [field_id |-> field_inline_text, child_index |-> 2, inherited |-> FALSE] @@
  11 :> [field_id |-> field_kind, child_index |-> 0, inherited |-> FALSE] @@
  12 :> [field_id |-> field_constraint_type, child_index |-> 2, inherited |-> FALSE] @@
  13 :> [field_id |-> field_target, child_index |-> 4, inherited |-> FALSE] @@
  14 :> [field_id |-> field_trigger, child_index |-> 1, inherited |-> FALSE]

\* C36 mutant: the name of a style block is bound to child 0, the `style`
\* keyword
ts_field_map_entries_C36 ==
  0 :> [field_id |-> field_kind, child_index |-> 0, inherited |-> FALSE] @@
  1 :> [field_id |-> field_key, child_index |-> 0, inherited |-> FALSE] @@
  2 :> [field_id |-> field_value, child_index |-> 2, inherited |-> FALSE] @@
  3 :> [field_id |-> field_name, child_index |-> 0, inherited |-> FALSE] @@
  4 :> [field_id |-> field_id, child_index |-> 1, inherited |-> FALSE] @@
  5 :> [field_id |-> field_kind, child_index |-> 0, inherited |-> FALSE] @@
  6 :> [field_id |-> field_inline_text, child_index |-> 1, inherited |-> FALSE] @@
  7 :> [field_id |-> field_kind, child_index |-> 0, inherited |-> FALSE] @@
  8 :> [field_id |-> field_name, child_index |-> 0, inherited |-> FALSE] @@
  9 :> [field_id |-> field_id, child_index |-> 1, inherited |-> FALSE] @@
  10 :> [field_id |-> field_inline_text, child_index |-> 2, inherited |-> FALSE] @@
  11 :> [field_id |-> field_kind, child_index |-> 0, inherited |-> FALSE] @@
  12 :> [field_id |-> field_constraint_type, child_index |-> 2, inherited |-> FALSE] @@
  13 :> [field_id |-> field_target, child_index |-> 0, inherited |-> FALSE] @@
  14 :> [field_id |-> field_trigger, child_index |-> 1, inherited |-> FALSE]

\* ---- ts_field_map_entries: entry index -> (field id, child index)
ts_field_map_entries ==
  0 :> [field_id |-> field_kind, child_index |-> 0, inherited |-> FALSE] @@
  1 :> [field_id |-> field_key, child_index |-> 0, inherited |-> FALSE] @@
  2 :> [field_id |-> field_value, child_index |-> 2, inherited |-> FALSE] @@
  3 :> [field_id |-> field_name, child_index |-> 1, inherited |-> FALSE] @@
  4 :> [field_id |-> field_id, child_index |-> 1, inherited |-> FALSE] @@
  5 :> [field_id |-> field_kind, child_index |-> 0, inherited |-> FALSE] @@
  6 :> [field_id |-> field_inline_text, child_index |-> 1, inherited |-> FALSE] @@
  7 :> [field_id |-> field_kind, child_index |-> 0, inherited |-> FALSE] @@
  8 :> [field_id |-> field_name, child_index |-> 0, inherited |-> FALSE] @@
  9 :> [field_id |-> field_id, child_index |-> 1, inherited |-> FALSE] @@
  10 :> [field_id |-> field_inline_text, child_index |-> 2, inherited |-> FALSE] @@
  11 :> [field_id |-> field_kind, child_index |-> 0, inherited |-> FALSE] @@
  12 :> [field_id |-> field_constraint_type, child_index |-> 2, inherited |-> FALSE] @@
  13 :> [field_id |-> field_target, child_index |-> 0, inherited |-> FALSE] @@
  14 :> [field_id |-> field_trigger, child_index |-> 1, inherited |-> FALSE]

\* ---- ts_symbol_metadata: the symbols with .visible = true
ts_symbol_metadata_visible ==
  {sym_comment, anon_sym_POUND_POUND, anon_sym_COLON, sym_annotation_text,
   anon_sym_accept, anon_sym_status, anon_sym_priority, anon_sym_tag,
   anon_sym_style, anon_sym_LBRACE, anon_sym_RBRACE, anon_sym_group,
   anon_sym_rect, anon_sym_ellipse, anon_sym_path, anon_sym_text,
   anon_sym_w, anon_sym_h, anon_sym_width, anon_sym_height,
   anon_sym_fill, anon_sym_stroke, anon_sym_corner, anon_sym_opacity,
   anon_sym_font, anon_sym_bg, anon_sym_use, anon_sym_layout,
   anon_sym_shadow, anon_sym_scale, anon_sym_rotate, anon_sym_translate,
   anon_sym_center_in, anon_sym_offset, anon_sym_ease, anon_sym_duration,
   anon_sym_EQ, anon_sym_anim, anon_sym_DASH_GT, anon_sym_AT,
   sym_identifier, sym_number, sym_hex_color, anon_sym_DQUOTE,
   sym_document, sym_annotation, sym_annotation_typed, sym_annotation_keyword,
   sym_style_block, sym_node_declaration, sym_node_kind, sym_node_body_item,
   sym_property, sym_property_name, sym_key_value_pair, sym_anim_block,
   sym_anim_trigger, sym_constraint_line, sym_node_id, sym_string}

\* ---- ts_lex: one definition per case (or run of cases) of the switch
ts_lex_0(lookahead, eof) ==
  IF eof THEN ADVANCE(117) ELSE  (* eof *)
  IF lookahead = 34 THEN ADVANCE(479) ELSE  (* '"' *)
  IF lookahead = 35 THEN ADVANCE(6) ELSE  (* '#' *)
  IF lookahead = 45 THEN ADVANCE(10) ELSE  (* '-' *)
  IF lookahead = 58 THEN ADVANCE(123) ELSE  (* ':' *)
  IF lookahead = 61 THEN ADVANCE(337) ELSE  (* '=' *)
  IF lookahead = 64 THEN ADVANCE(342) ELSE  (* '@' *)
  IF lookahead = 97 THEN ADVANCE(359) ELSE  (* 'a' *)
  IF lookahead = 98 THEN ADVANCE(386) ELSE  (* 'b' *)
  IF lookahead = 99 THEN ADVANCE(367) ELSE  (* 'c' *)
  IF lookahead = 100 THEN ADVANCE(459) ELSE  (* 'd' *)
  IF lookahead = 101 THEN ADVANCE(355) ELSE  (* 'e' *)
  IF lookahead = 102 THEN ADVANCE(393) ELSE  (* 'f' *)
  IF lookahead = 103 THEN ADVANCE(427) ELSE  (* 'g' *)
  IF lookahead = 104 THEN ADVANCE(280) ELSE  (* 'h' *)
  IF lookahead = 108 THEN ADVANCE(345) ELSE  (* 'l' *)
  IF lookahead = 111 THEN ADVANCE(384) ELSE  (* 'o' *)
  IF lookahead = 112 THEN ADVANCE(346) ELSE  (* 'p' *)
  IF lookahead = 114 THEN ADVANCE(379) ELSE  (* 'r' *)
  IF lookahead = 115 THEN ADVANCE(361) ELSE  (* 's' *)
  IF lookahead = 116 THEN ADVANCE(348) ELSE  (* 't' *)
  IF lookahead = 117 THEN ADVANCE(435) ELSE  (* 'u' *)
  IF lookahead = 119 THEN ADVANCE(277) ELSE  (* 'w' *)
  IF lookahead = 123 THEN ADVANCE(259) ELSE  (* '{' *)
  IF lookahead = 125 THEN ADVANCE(260) ELSE  (* '}' *)
  IF (9 <= lookahead /\ lookahead <= 13) \/ lookahead = 32 THEN SKIP(0) ELSE  (* ('\t' <= lookahead && lookahead <= '\r') || lookahead == ' ' *)
  IF (48 <= lookahead /\ lookahead <= 57) THEN ADVANCE(471) ELSE  (* ('0' <= lookahead && lookahead <= '9') *)
  IF (65 <= lookahead /\ lookahead <= 90) \/ lookahead = 95 \/ (105 <= lookahead /\ lookahead <= 122) THEN ADVANCE(469) ELSE  (* ('A' <= lookahead && lookahead <= 'Z') || lookahead == '_' || ('i' <= lookahead && lookahead <= 'z') *)
  END_STATE

ts_lex_1(lookahead, eof) ==
  IF lookahead = 10 THEN SKIP(1) ELSE  (* lookahead == '\n' *)
  IF lookahead = 34 THEN ADVANCE(480) ELSE  (* lookahead == '"' *)
  IF lookahead = 35 THEN ADVANCE(128) ELSE  (* lookahead == '#' *)
  IF lookahead = 97 THEN ADVANCE(144) ELSE  (* lookahead == 'a' *)
  IF lookahead = 98 THEN ADVANCE(169) ELSE  (* lookahead == 'b' *)
  IF lookahead = 99 THEN ADVANCE(152) ELSE  (* lookahead == 'c' *)
  IF lookahead = 100 THEN ADVANCE(238) ELSE  (* lookahead == 'd' *)
  IF lookahead = 101 THEN ADVANCE(141) ELSE  (* lookahead == 'e' *)
  IF lookahead = 102 THEN ADVANCE(176) ELSE  (* lookahead == 'f' *)
  IF lookahead = 103 THEN ADVANCE(208) ELSE  (* lookahead == 'g' *)
  IF lookahead = 104 THEN ADVANCE(282) ELSE  (* lookahead == 'h' *)
  IF lookahead = 108 THEN ADVANCE(130) ELSE  (* lookahead == 'l' *)
  IF lookahead = 111 THEN ADVANCE(167) ELSE  (* lookahead == 'o' *)
  IF lookahead = 112 THEN ADVANCE(131) ELSE  (* lookahead == 'p' *)
  IF lookahead = 114 THEN ADVANCE(162) ELSE  (* lookahead == 'r' *)
  IF lookahead = 115 THEN ADVANCE(147) ELSE  (* lookahead == 's' *)
  IF lookahead = 116 THEN ADVANCE(132) ELSE  (* lookahead == 't' *)
  IF lookahead = 117 THEN ADVANCE(214) ELSE  (* lookahead == 'u' *)
  IF lookahead = 119 THEN ADVANCE(279) ELSE  (* lookahead == 'w' *)
  IF lookahead = 125 THEN ADVANCE(261) ELSE  (* lookahead == '}' *)
  IF (9 <= lookahead /\ lookahead <= 13) \/ lookahead = 32 THEN ADVANCE(125) ELSE  (* ('\t' <= lookahead && lookahead <= '\r') || lookahead == ' ' *)
  IF lookahead # 0 THEN ADVANCE(247) ELSE  (* lookahead != 0 *)
  END_STATE

ts_lex_2(lookahead, eof) ==
  IF lookahead = 10 THEN SKIP(2) ELSE  (* lookahead == '\n' *)
  IF lookahead = 34 THEN ADVANCE(480) ELSE  (* lookahead == '"' *)
  IF lookahead = 35 THEN ADVANCE(127) ELSE  (* lookahead == '#' *)
  IF (9 <= lookahead /\ lookahead <= 13) \/ lookahead = 32 THEN ADVANCE(126) ELSE  (* ('\t' <= lookahead && lookahead <= '\r') || lookahead == ' ' *)
  IF lookahead # 0 THEN ADVANCE(247) ELSE  (* lookahead != 0 *)
  END_STATE

ts_lex_3(lookahead, eof) ==
  IF lookahead = 34 THEN ADVANCE(479) ELSE  (* '"' *)
  IF lookahead = 35 THEN ADVANCE(6) ELSE  (* '#' *)
  IF lookahead = 45 THEN ADVANCE(110) ELSE  (* '-' *)
  IF lookahead = 61 THEN ADVANCE(337) ELSE  (* '=' *)
  IF lookahead = 64 THEN ADVANCE(342) ELSE  (* '@' *)
  IF lookahead = 97 THEN ADVANCE(410) ELSE  (* 'a' *)
  IF lookahead = 98 THEN ADVANCE(386) ELSE  (* 'b' *)
  IF lookahead = 99 THEN ADVANCE(367) ELSE  (* 'c' *)
  IF lookahead = 100 THEN ADVANCE(459) ELSE  (* 'd' *)
  IF lookahead = 101 THEN ADVANCE(355) ELSE  (* 'e' *)
  IF lookahead = 102 THEN ADVANCE(393) ELSE  (* 'f' *)
  IF lookahead = 103 THEN ADVANCE(427) ELSE  (* 'g' *)
  IF lookahead = 104 THEN ADVANCE(280) ELSE  (* 'h' *)
  IF lookahead = 108 THEN ADVANCE(345) ELSE  (* 'l' *)
  IF lookahead = 111 THEN ADVANCE(384) ELSE  (* 'o' *)
  IF lookahead = 112 THEN ADVANCE(347) ELSE  (* 'p' *)
  IF lookahead = 114 THEN ADVANCE(379) ELSE  (* 'r' *)
  IF lookahead = 115 THEN ADVANCE(362) ELSE  (* 's' *)
  IF lookahead = 116 THEN ADVANCE(368) ELSE  (* 't' *)
  IF lookahead = 117 THEN ADVANCE(435) ELSE  (* 'u' *)
  IF lookahead = 119 THEN ADVANCE(277) ELSE  (* 'w' *)
  IF lookahead = 125 THEN ADVANCE(260) ELSE  (* '}' *)
  IF (9 <= lookahead /\ lookahead <= 13) \/ lookahead = 32 THEN SKIP(3) ELSE  (* ('\t' <= lookahead && lookahead <= '\r') || lookahead == ' ' *)
  IF (48 <= lookahead /\ lookahead <= 57) THEN ADVANCE(471) ELSE  (* ('0' <= lookahead && lookahead <= '9') *)
  IF (65 <= lookahead /\ lookahead <= 90) \/ lookahead = 95 \/ (105 <= lookahead /\ lookahead <= 122) THEN ADVANCE(469) ELSE  (* ('A' <= lookahead && lookahead <= 'Z') || lookahead == '_' || ('i' <= lookahead && lookahead <= 'z') *)
  END_STATE

ts_lex_4(lookahead, eof) ==
  IF lookahead = 34 THEN ADVANCE(479) ELSE  (* '"' *)
  IF lookahead = 35 THEN ADVANCE(112) ELSE  (* '#' *)
  IF lookahead = 45 THEN ADVANCE(110) ELSE  (* '-' *)
  IF lookahead = 61 THEN ADVANCE(337) ELSE  (* '=' *)
  IF lookahead = 64 THEN ADVANCE(342) ELSE  (* '@' *)
  IF lookahead = 98 THEN ADVANCE(386) ELSE  (* 'b' *)
  IF lookahead = 99 THEN ADVANCE(367) ELSE  (* 'c' *)
  IF lookahead = 100 THEN ADVANCE(459) ELSE  (* 'd' *)
  IF lookahead = 101 THEN ADVANCE(356) ELSE  (* 'e' *)
  IF lookahead = 102 THEN ADVANCE(393) ELSE  (* 'f' *)
  IF lookahead = 104 THEN ADVANCE(280) ELSE  (* 'h' *)
  IF lookahead = 108 THEN ADVANCE(345) ELSE  (* 'l' *)
  IF lookahead = 111 THEN ADVANCE(384) ELSE  (* 'o' *)
  IF lookahead = 114 THEN ADVANCE(420) ELSE  (* 'r' *)
  IF lookahead = 115 THEN ADVANCE(362) ELSE  (* 's' *)
  IF lookahead = 116 THEN ADVANCE(432) ELSE  (* 't' *)
  IF lookahead = 117 THEN ADVANCE(435) ELSE  (* 'u' *)
  IF lookahead = 119 THEN ADVANCE(277) ELSE  (* 'w' *)
  IF lookahead = 125 THEN ADVANCE(260) ELSE  (* '}' *)
  IF (9 <= lookahead /\ lookahead <= 13) \/ lookahead = 32 THEN SKIP(4) ELSE  (* ('\t' <= lookahead && lookahead <= '\r') || lookahead == ' ' *)
  IF (48 <= lookahead /\ lookahead <= 57) THEN ADVANCE(471) ELSE  (* ('0' <= lookahead && lookahead <= '9') *)
  IF (65 <= lookahead /\ lookahead <= 90) \/ lookahead = 95 \/ (97 <= lookahead /\ lookahead <= 122) THEN ADVANCE(469) ELSE  (* ('A' <= lookahead && lookahead <= 'Z') || lookahead == '_' || ('a' <= lookahead && lookahead <= 'z') *)
  END_STATE

ts_lex_5(lookahead, eof) ==
  IF lookahead = 34 THEN ADVANCE(479) ELSE  (* lookahead == '"' *)
  IF lookahead = 35 THEN ADVANCE(112) ELSE  (* lookahead == '#' *)
  IF lookahead = 45 THEN ADVANCE(110) ELSE  (* lookahead == '-' *)
  IF lookahead = 64 THEN ADVANCE(342) ELSE  (* lookahead == '@' *)
  IF (9 <= lookahead /\ lookahead <= 13) \/ lookahead = 32 THEN SKIP(5) ELSE  (* ('\t' <= lookahead && lookahead <= '\r') || lookahead == ' ' *)
  IF (48 <= lookahead /\ lookahead <= 57) THEN ADVANCE(471) ELSE  (* ('0' <= lookahead && lookahead <= '9') *)
  IF (65 <= lookahead /\ lookahead <= 90) \/ lookahead = 95 \/ (97 <= lookahead /\ lookahead <= 122) THEN ADVANCE(469) ELSE  (* ('A' <= lookahead && lookahead <= 'Z') || lookahead == '_' || ('a' <= lookahead && lookahead <= 'z') *)
  END_STATE

\* C21 mutant: case 6 (after a `#` in a value position) takes a second `#`
\* into the comment: `##` begins a comment
ts_lex_6_C21(lookahead, eof) ==
  IF lookahead = 35 THEN ADVANCE(120) ELSE
  IF (48 <= lookahead /\ lookahead <= 57) \/ (65 <= lookahead /\ lookahead <= 70) \/ (97 <= lookahead /\ lookahead <= 102) THEN ADVANCE(119) ELSE
  IF lookahead # 0 /\ lookahead # 10 THEN ADVANCE(120) ELSE
  END_STATE

ts_lex_6(lookahead, eof) ==
  IF lookahead = 35 THEN ADVANCE(121) ELSE  (* lookahead == '#' *)
  IF (48 <= lookahead /\ lookahead <= 57) \/ (65 <= lookahead /\ lookahead <= 70) \/ (97 <= lookahead /\ lookahead <= 102) THEN ADVANCE(119) ELSE  (* ('0' <= lookahead && lookahead <= '9') || ('A' <= lookahead && lookahead <= 'F') || ('a' <= lookahead && lookahead <= 'f') *)
  IF lookahead # 0 /\ lookahead # 10 THEN ADVANCE(120) ELSE  (* lookahead != 0 && lookahead != '\n' *)
  END_STATE

\* C20 mutant: case 7 (after a `#`) forgets the newline: a `#` at the end
\* of a line starts a comment that runs over the newline
ts_lex_7_C20(lookahead, eof) ==
  IF lookahead = 35 THEN ADVANCE(121) ELSE
  IF lookahead # 0 THEN ADVANCE(120) ELSE
  END_STATE

ts_lex_7(lookahead, eof) ==
  IF lookahead = 35 THEN ADVANCE(121) ELSE  (* lookahead == '#' *)
  IF lookahead # 0 /\ lookahead # 10 THEN ADVANCE(120) ELSE  (* lookahead != 0 && lookahead != '\n' *)
  END_STATE

ts_lex_8(lookahead, eof) ==
  IF lookahead = 35 THEN ADVANCE(113) ELSE  (* lookahead == '#' *)
  IF (9 <= lookahead /\ lookahead <= 13) \/ lookahead = 32 THEN SKIP(8) ELSE  (* ('\t' <= lookahead && lookahead <= '\r') || lookahead == ' ' *)
  IF (65 <= lookahead /\ lookahead <= 90) \/ lookahead = 95 \/ (97 <= lookahead /\ lookahead <= 122) THEN ADVANCE(469) ELSE  (* ('A' <= lookahead && lookahead <= 'Z') || lookahead == '_' || ('a' <= lookahead && lookahead <= 'z') *)
  END_STATE

ts_lex_9(lookahead, eof) ==
  IF lookahead = 62 THEN ADVANCE(341) ELSE  (* lookahead == '>' *)
  END_STATE

ts_lex_10(lookahead, eof) ==
  IF lookahead = 62 THEN ADVANCE(341) ELSE  (* lookahead == '>' *)
  IF (48 <= lookahead /\ lookahead <= 57) THEN ADVANCE(471) ELSE  (* ('0' <= lookahead && lookahead <= '9') *)
  END_STATE

ts_lex_11_50(state, lookahead, eof) ==
  CASE state = 11 ->
         IF lookahead = 95 THEN ADVANCE(53) ELSE  (* lookahead == '_' *)
         END_STATE
    [] state = 12 ->
         IF lookahead = 97 THEN ADVANCE(109) ELSE  (* lookahead == 'a' *)
         END_STATE
    [] state = 13 ->
         IF lookahead = 97 THEN ADVANCE(89) ELSE  (* lookahead == 'a' *)
         END_STATE
    [] state = 14 ->
         IF lookahead = 97 THEN ADVANCE(23) ELSE  (* lookahead == 'a' *)
         END_STATE
    [] state = 15 ->
         IF lookahead = 97 THEN ADVANCE(25) ELSE  (* lookahead == 'a' *)
         END_STATE
    [] state = 16 ->
         IF lookahead = 97 THEN ADVANCE(85) ELSE  (* lookahead == 'a' *)
         IF lookahead = 108 THEN ADVANCE(57) ELSE  (* lookahead == 'l' *)
         END_STATE
    [] state = 17 ->
         IF lookahead = 97 THEN ADVANCE(68) ELSE  (* lookahead == 'a' *)
         END_STATE
    [] state = 18 ->
         IF lookahead = 97 THEN ADVANCE(59) ELSE  (* lookahead == 'a' *)
         END_STATE
    [] state = 19 ->
         IF lookahead = 97 THEN ADVANCE(99) ELSE  (* lookahead == 'a' *)
         END_STATE
    [] state = 20 ->
         IF lookahead = 97 THEN ADVANCE(100) ELSE  (* lookahead == 'a' *)
         END_STATE
    [] state = 21 ->
         IF lookahead = 97 THEN ADVANCE(102) ELSE  (* lookahead == 'a' *)
         END_STATE
    [] state = 22 ->
         IF lookahead = 99 THEN ADVANCE(18) ELSE  (* lookahead == 'c' *)
         IF lookahead = 104 THEN ADVANCE(15) ELSE  (* lookahead == 'h' *)
         IF lookahead = 116 THEN ADVANCE(80) ELSE  (* lookahead == 't' *)
         END_STATE
    [] state = 23 ->
         IF lookahead = 99 THEN ADVANCE(54) ELSE  (* lookahead == 'c' *)
         END_STATE
    [] state = 24 ->
         IF lookahead = 99 THEN ADVANCE(91) ELSE  (* lookahead == 'c' *)
         END_STATE
    [] state = 25 ->
         IF lookahead = 100 THEN ADVANCE(71) ELSE  (* lookahead == 'd' *)
         END_STATE
    [] state = 26 ->
         IF lookahead = 100 THEN ADVANCE(98) ELSE  (* lookahead == 'd' *)
         END_STATE
    [] state = 27 ->
         IF lookahead = 101 THEN ADVANCE(24) ELSE  (* lookahead == 'e' *)
         IF lookahead = 111 THEN ADVANCE(101) ELSE  (* lookahead == 'o' *)
         END_STATE
    [] state = 28 ->
         IF lookahead = 101 THEN ADVANCE(107) ELSE  (* lookahead == 'e' *)
         IF lookahead = 114 THEN ADVANCE(17) ELSE  (* lookahead == 'r' *)
         END_STATE
    [] state = 29 ->
         IF lookahead = 101 THEN ADVANCE(307) ELSE  (* lookahead == 'e' *)
         END_STATE
    [] state = 30 ->
         IF lookahead = 101 THEN ADVANCE(331) ELSE  (* lookahead == 'e' *)
         END_STATE
    [] state = 31 ->
         IF lookahead = 101 THEN ADVANCE(316) ELSE  (* lookahead == 'e' *)
         END_STATE
    [] state = 32 ->
         IF lookahead = 101 THEN ADVANCE(256) ELSE  (* lookahead == 'e' *)
         END_STATE
    [] state = 33 ->
         IF lookahead = 101 THEN ADVANCE(319) ELSE  (* lookahead == 'e' *)
         END_STATE
    [] state = 34 ->
         IF lookahead = 101 THEN ADVANCE(292) ELSE  (* lookahead == 'e' *)
         END_STATE
    [] state = 35 ->
         IF lookahead = 101 THEN ADVANCE(268) ELSE  (* lookahead == 'e' *)
         END_STATE
    [] state = 36 ->
         IF lookahead = 101 THEN ADVANCE(322) ELSE  (* lookahead == 'e' *)
         END_STATE
    [] state = 37 ->
         IF lookahead = 101 THEN ADVANCE(66) ELSE  (* lookahead == 'e' *)
         IF lookahead = 111 THEN ADVANCE(81) ELSE  (* lookahead == 'o' *)
         END_STATE
    [] state = 38 ->
         IF lookahead = 101 THEN ADVANCE(78) ELSE  (* lookahead == 'e' *)
         END_STATE
    [] state = 39 ->
         IF lookahead = 101 THEN ADVANCE(79) ELSE  (* lookahead == 'e' *)
         END_STATE
    [] state = 40 ->
         IF lookahead = 101 THEN ADVANCE(95) ELSE  (* lookahead == 'e' *)
         END_STATE
    [] state = 41 ->
         IF lookahead = 102 THEN ADVANCE(42) ELSE  (* lookahead == 'f' *)
         IF lookahead = 112 THEN ADVANCE(14) ELSE  (* lookahead == 'p' *)
         END_STATE
    [] state = 42 ->
         IF lookahead = 102 THEN ADVANCE(86) ELSE  (* lookahead == 'f' *)
         END_STATE
    [] state = 43 ->
         IF lookahead = 103 THEN ADVANCE(304) ELSE  (* lookahead == 'g' *)
         END_STATE
    [] state = 44 ->
         IF lookahead = 103 THEN ADVANCE(47) ELSE  (* lookahead == 'g' *)
         END_STATE
    [] state = 45 ->
         IF lookahead = 104 THEN ADVANCE(271) ELSE  (* lookahead == 'h' *)
         END_STATE
    [] state = 46 ->
         IF lookahead = 104 THEN ADVANCE(283) ELSE  (* lookahead == 'h' *)
         END_STATE
    [] state = 47 ->
         IF lookahead = 104 THEN ADVANCE(93) ELSE  (* lookahead == 'h' *)
         END_STATE
    [] state = 48 ->
         IF lookahead = 105 THEN ADVANCE(62) ELSE  (* lookahead == 'i' *)
         END_STATE
    [] state = 49 ->
         IF lookahead = 105 THEN ADVANCE(76) ELSE  (* lookahead == 'i' *)
         END_STATE
    [] state = 50 ->
         IF lookahead = 105 THEN ADVANCE(44) ELSE  (* lookahead == 'i' *)
         END_STATE

ts_lex_51_90(state, lookahead, eof) ==
  CASE state = 51 ->
         IF lookahead = 105 THEN ADVANCE(58) ELSE  (* lookahead == 'i' *)
         IF lookahead = 111 THEN ADVANCE(67) ELSE  (* lookahead == 'o' *)
         END_STATE
    [] state = 52 ->
         IF lookahead = 105 THEN ADVANCE(74) ELSE  (* lookahead == 'i' *)
         END_STATE
    [] state = 53 ->
         IF lookahead = 105 THEN ADVANCE(65) ELSE  (* lookahead == 'i' *)
         END_STATE
    [] state = 54 ->
         IF lookahead = 105 THEN ADVANCE(96) ELSE  (* lookahead == 'i' *)
         END_STATE
    [] state = 55 ->
         IF lookahead = 107 THEN ADVANCE(34) ELSE  (* lookahead == 'k' *)
         END_STATE
    [] state = 56 ->
         IF lookahead = 108 THEN ADVANCE(289) ELSE  (* lookahead == 'l' *)
         END_STATE
    [] state = 57 ->
         IF lookahead = 108 THEN ADVANCE(49) ELSE  (* lookahead == 'l' *)
         END_STATE
    [] state = 58 ->
         IF lookahead = 108 THEN ADVANCE(56) ELSE  (* lookahead == 'l' *)
         END_STATE
    [] state = 59 ->
         IF lookahead = 108 THEN ADVANCE(31) ELSE  (* lookahead == 'l' *)
         END_STATE
    [] state = 60 ->
         IF lookahead = 108 THEN ADVANCE(32) ELSE  (* lookahead == 'l' *)
         END_STATE
    [] state = 61 ->
         IF lookahead = 108 THEN ADVANCE(21) ELSE  (* lookahead == 'l' *)
         END_STATE
    [] state = 62 ->
         IF lookahead = 109 THEN ADVANCE(338) ELSE  (* lookahead == 'm' *)
         END_STATE
    [] state = 63 ->
         IF lookahead = 110 THEN ADVANCE(48) ELSE  (* lookahead == 'n' *)
         END_STATE
    [] state = 64 ->
         IF lookahead = 110 THEN ADVANCE(334) ELSE  (* lookahead == 'n' *)
         END_STATE
    [] state = 65 ->
         IF lookahead = 110 THEN ADVANCE(325) ELSE  (* lookahead == 'n' *)
         END_STATE
    [] state = 66 ->
         IF lookahead = 110 THEN ADVANCE(97) ELSE  (* lookahead == 'n' *)
         END_STATE
    [] state = 67 ->
         IF lookahead = 110 THEN ADVANCE(90) ELSE  (* lookahead == 'n' *)
         END_STATE
    [] state = 68 ->
         IF lookahead = 110 THEN ADVANCE(87) ELSE  (* lookahead == 'n' *)
         END_STATE
    [] state = 69 ->
         IF lookahead = 110 THEN ADVANCE(39) ELSE  (* lookahead == 'n' *)
         END_STATE
    [] state = 70 ->
         IF lookahead = 111 THEN ADVANCE(55) ELSE  (* lookahead == 'o' *)
         END_STATE
    [] state = 71 ->
         IF lookahead = 111 THEN ADVANCE(106) ELSE  (* lookahead == 'o' *)
         END_STATE
    [] state = 72 ->
         IF lookahead = 111 THEN ADVANCE(103) ELSE  (* lookahead == 'o' *)
         END_STATE
    [] state = 73 ->
         IF lookahead = 111 THEN ADVANCE(105) ELSE  (* lookahead == 'o' *)
         END_STATE
    [] state = 74 ->
         IF lookahead = 111 THEN ADVANCE(64) ELSE  (* lookahead == 'o' *)
         END_STATE
    [] state = 75 ->
         IF lookahead = 112 THEN ADVANCE(262) ELSE  (* lookahead == 'p' *)
         END_STATE
    [] state = 76 ->
         IF lookahead = 112 THEN ADVANCE(88) ELSE  (* lookahead == 'p' *)
         END_STATE
    [] state = 77 ->
         IF lookahead = 114 THEN ADVANCE(72) ELSE  (* lookahead == 'r' *)
         END_STATE
    [] state = 78 ->
         IF lookahead = 114 THEN ADVANCE(11) ELSE  (* lookahead == 'r' *)
         END_STATE
    [] state = 79 ->
         IF lookahead = 114 THEN ADVANCE(295) ELSE  (* lookahead == 'r' *)
         END_STATE
    [] state = 80 ->
         IF lookahead = 114 THEN ADVANCE(70) ELSE  (* lookahead == 'r' *)
         IF lookahead = 121 THEN ADVANCE(60) ELSE  (* lookahead == 'y' *)
         END_STATE
    [] state = 81 ->
         IF lookahead = 114 THEN ADVANCE(69) ELSE  (* lookahead == 'r' *)
         END_STATE
    [] state = 82 ->
         IF lookahead = 114 THEN ADVANCE(19) ELSE  (* lookahead == 'r' *)
         END_STATE
    [] state = 83 ->
         IF lookahead = 115 THEN ADVANCE(470) ELSE  (* lookahead == 's' *)
         END_STATE
    [] state = 84 ->
         IF lookahead = 115 THEN ADVANCE(29) ELSE  (* lookahead == 's' *)
         END_STATE
    [] state = 85 ->
         IF lookahead = 115 THEN ADVANCE(30) ELSE  (* lookahead == 's' *)
         END_STATE
    [] state = 86 ->
         IF lookahead = 115 THEN ADVANCE(40) ELSE  (* lookahead == 's' *)
         END_STATE
    [] state = 87 ->
         IF lookahead = 115 THEN ADVANCE(61) ELSE  (* lookahead == 's' *)
         END_STATE
    [] state = 88 ->
         IF lookahead = 115 THEN ADVANCE(35) ELSE  (* lookahead == 's' *)
         END_STATE
    [] state = 89 ->
         IF lookahead = 116 THEN ADVANCE(45) ELSE  (* lookahead == 't' *)
         END_STATE
    [] state = 90 ->
         IF lookahead = 116 THEN ADVANCE(301) ELSE  (* lookahead == 't' *)
         END_STATE

ts_lex_91_111(state, lookahead, eof) ==
  CASE state = 91 ->
         IF lookahead = 116 THEN ADVANCE(265) ELSE  (* lookahead == 't' *)
         END_STATE
    [] state = 92 ->
         IF lookahead = 116 THEN ADVANCE(274) ELSE  (* lookahead == 't' *)
         END_STATE
    [] state = 93 ->
         IF lookahead = 116 THEN ADVANCE(286) ELSE  (* lookahead == 't' *)
         END_STATE
    [] state = 94 ->
         IF lookahead = 116 THEN ADVANCE(310) ELSE  (* lookahead == 't' *)
         END_STATE
    [] state = 95 ->
         IF lookahead = 116 THEN ADVANCE(328) ELSE  (* lookahead == 't' *)
         END_STATE
    [] state = 96 ->
         IF lookahead = 116 THEN ADVANCE(108) ELSE  (* lookahead == 't' *)
         END_STATE
    [] state = 97 ->
         IF lookahead = 116 THEN ADVANCE(38) ELSE  (* lookahead == 't' *)
         END_STATE
    [] state = 98 ->
         IF lookahead = 116 THEN ADVANCE(46) ELSE  (* lookahead == 't' *)
         END_STATE
    [] state = 99 ->
         IF lookahead = 116 THEN ADVANCE(52) ELSE  (* lookahead == 't' *)
         END_STATE
    [] state = 100 ->
         IF lookahead = 116 THEN ADVANCE(33) ELSE  (* lookahead == 't' *)
         END_STATE
    [] state = 101 ->
         IF lookahead = 116 THEN ADVANCE(20) ELSE  (* lookahead == 't' *)
         END_STATE
    [] state = 102 ->
         IF lookahead = 116 THEN ADVANCE(36) ELSE  (* lookahead == 't' *)
         END_STATE
    [] state = 103 ->
         IF lookahead = 117 THEN ADVANCE(75) ELSE  (* lookahead == 'u' *)
         END_STATE
    [] state = 104 ->
         IF lookahead = 117 THEN ADVANCE(82) ELSE  (* lookahead == 'u' *)
         END_STATE
    [] state = 105 ->
         IF lookahead = 117 THEN ADVANCE(94) ELSE  (* lookahead == 'u' *)
         END_STATE
    [] state = 106 ->
         IF lookahead = 119 THEN ADVANCE(313) ELSE  (* lookahead == 'w' *)
         END_STATE
    [] state = 107 ->
         IF lookahead = 120 THEN ADVANCE(92) ELSE  (* lookahead == 'x' *)
         END_STATE
    [] state = 108 ->
         IF lookahead = 121 THEN ADVANCE(298) ELSE  (* lookahead == 'y' *)
         END_STATE
    [] state = 109 ->
         IF lookahead = 121 THEN ADVANCE(73) ELSE  (* lookahead == 'y' *)
         END_STATE
    [] state = 110 ->
         IF (48 <= lookahead /\ lookahead <= 57) THEN ADVANCE(471) ELSE  (* ('0' <= lookahead && lookahead <= '9') *)
         END_STATE
    [] state = 111 ->
         IF (48 <= lookahead /\ lookahead <= 57) THEN ADVANCE(472) ELSE  (* ('0' <= lookahead && lookahead <= '9') *)
         END_STATE

ts_lex_112(lookahead, eof) ==
  IF (48 <= lookahead /\ lookahead <= 57) \/ (65 <= lookahead /\ lookahead <= 70) \/ (97 <= lookahead /\ lookahead <= 102) THEN ADVANCE(119) ELSE  (* ('0' <= lookahead && lookahead <= '9') || ('A' <= lookahead && lookahead <= 'F') || ('a' <= lookahead && lookahead <= 'f') *)
  IF lookahead # 0 /\ lookahead # 10 /\ lookahead # 35 THEN ADVANCE(120) ELSE  (* lookahead != 0 && lookahead != '\n' && lookahead != '#' *)
  END_STATE

\* C33 mutant: case 113 (after a `#` where only identifiers are lexed)
\* goes on to the hex digit states, as case 112 does in a value position
ts_lex_113_C33(lookahead, eof) ==
  IF lookahead # 0 /\ lookahead # 10 /\ lookahead # 35 THEN ADVANCE(119) ELSE
  END_STATE

ts_lex_113(lookahead, eof) ==
  IF lookahead # 0 /\ lookahead # 10 /\ lookahead # 35 THEN ADVANCE(120) ELSE  (* lookahead != 0 && lookahead != '\n' && lookahead != '#' *)
  END_STATE

ts_lex_114(lookahead, eof) ==
  IF eof THEN ADVANCE(117) ELSE  (* eof *)
  IF lookahead = 10 THEN SKIP(114) ELSE  (* lookahead == '\n' *)
  IF lookahead = 34 THEN ADVANCE(480) ELSE  (* lookahead == '"' *)
  IF lookahead = 35 THEN ADVANCE(128) ELSE  (* lookahead == '#' *)
  IF lookahead = 64 THEN ADVANCE(343) ELSE  (* lookahead == '@' *)
  IF lookahead = 97 THEN ADVANCE(145) ELSE  (* lookahead == 'a' *)
  IF lookahead = 101 THEN ADVANCE(185) ELSE  (* lookahead == 'e' *)
  IF lookahead = 103 THEN ADVANCE(208) ELSE  (* lookahead == 'g' *)
  IF lookahead = 112 THEN ADVANCE(131) ELSE  (* lookahead == 'p' *)
  IF lookahead = 114 THEN ADVANCE(163) ELSE  (* lookahead == 'r' *)
  IF lookahead = 115 THEN ADVANCE(228) ELSE  (* lookahead == 's' *)
  IF lookahead = 116 THEN ADVANCE(133) ELSE  (* lookahead == 't' *)
  IF (9 <= lookahead /\ lookahead <= 13) \/ lookahead = 32 THEN ADVANCE(124) ELSE  (* ('\t' <= lookahead && lookahead <= '\r') || lookahead == ' ' *)
  IF lookahead # 0 THEN ADVANCE(247) ELSE  (* lookahead != 0 *)
  END_STATE

ts_lex_115(lookahead, eof) ==
  IF eof THEN ADVANCE(117) ELSE  (* eof *)
  IF lookahead = 34 THEN ADVANCE(479) ELSE  (* '"' *)
  IF lookahead = 35 THEN ADVANCE(6) ELSE  (* '#' *)
  IF lookahead = 45 THEN ADVANCE(110) ELSE  (* '-' *)
  IF lookahead = 61 THEN ADVANCE(337) ELSE  (* '=' *)
  IF lookahead = 64 THEN ADVANCE(342) ELSE  (* '@' *)
  IF lookahead = 101 THEN ADVANCE(402) ELSE  (* 'e' *)
  IF lookahead = 103 THEN ADVANCE(427) ELSE  (* 'g' *)
  IF lookahead = 112 THEN ADVANCE(347) ELSE  (* 'p' *)
  IF lookahead = 114 THEN ADVANCE(380) ELSE  (* 'r' *)
  IF lookahead = 115 THEN ADVANCE(453) ELSE  (* 's' *)
  IF lookahead = 116 THEN ADVANCE(369) ELSE  (* 't' *)
  IF (9 <= lookahead /\ lookahead <= 13) \/ lookahead = 32 THEN SKIP(115) ELSE  (* ('\t' <= lookahead && lookahead <= '\r') || lookahead == ' ' *)
  IF (48 <= lookahead /\ lookahead <= 57) THEN ADVANCE(471) ELSE  (* ('0' <= lookahead && lookahead <= '9') *)
  IF (65 <= lookahead /\ lookahead <= 90) \/ lookahead = 95 \/ (97 <= lookahead /\ lookahead <= 122) THEN ADVANCE(469) ELSE  (* ('A' <= lookahead && lookahead <= 'Z') || lookahead == '_' || ('a' <= lookahead && lookahead <= 'z') *)
  END_STATE

\* C23 mutant: case 116 (top level and node bodies) advances over
\* whitespace instead of skipping it: it becomes part of the token
ts_lex_116_C23(lookahead, eof) ==
  IF eof THEN ADVANCE(117) ELSE
  IF lookahead = 34 THEN ADVANCE(479) ELSE
  IF lookahead = 35 THEN ADVANCE(7) ELSE
  IF lookahead = 45 THEN ADVANCE(9) ELSE
  IF lookahead = 58 THEN ADVANCE(123) ELSE
  IF lookahead = 64 THEN ADVANCE(342) ELSE
  IF lookahead = 97 THEN ADVANCE(63) ELSE
  IF lookahead = 98 THEN ADVANCE(43) ELSE
  IF lookahead = 99 THEN ADVANCE(37) ELSE
  IF lookahead = 100 THEN ADVANCE(104) ELSE
  IF lookahead = 101 THEN ADVANCE(16) ELSE
  IF lookahead = 102 THEN ADVANCE(51) ELSE
  IF lookahead = 103 THEN ADVANCE(77) ELSE
  IF lookahead = 104 THEN ADVANCE(281) ELSE
  IF lookahead = 108 THEN ADVANCE(12) ELSE
  IF lookahead = 111 THEN ADVANCE(41) ELSE
  IF lookahead = 112 THEN ADVANCE(13) ELSE
  IF lookahead = 114 THEN ADVANCE(27) ELSE
  IF lookahead = 115 THEN ADVANCE(22) ELSE
  IF lookahead = 116 THEN ADVANCE(28) ELSE
  IF lookahead = 117 THEN ADVANCE(84) ELSE
  IF lookahead = 119 THEN ADVANCE(278) ELSE
  IF lookahead = 123 THEN ADVANCE(259) ELSE
  IF lookahead = 125 THEN ADVANCE(260) ELSE
  IF (9 <= lookahead /\ lookahead <= 13) \/ lookahead = 32 THEN ADVANCE(116) ELSE
  END_STATE

ts_lex_116(lookahead, eof) ==
  IF eof THEN ADVANCE(117) ELSE  (* eof *)
  IF lookahead = 34 THEN ADVANCE(479) ELSE  (* '"' *)
  IF lookahead = 35 THEN ADVANCE(7) ELSE  (* '#' *)
  IF lookahead = 45 THEN ADVANCE(9) ELSE  (* '-' *)
  IF lookahead = 58 THEN ADVANCE(123) ELSE  (* ':' *)
  IF lookahead = 64 THEN ADVANCE(342) ELSE  (* '@' *)
  IF lookahead = 97 THEN ADVANCE(63) ELSE  (* 'a' *)
  IF lookahead = 98 THEN ADVANCE(43) ELSE  (* 'b' *)
  IF lookahead = 99 THEN ADVANCE(37) ELSE  (* 'c' *)
  IF lookahead = 100 THEN ADVANCE(104) ELSE  (* 'd' *)
  IF lookahead = 101 THEN ADVANCE(16) ELSE  (* 'e' *)
  IF lookahead = 102 THEN ADVANCE(51) ELSE  (* 'f' *)
  IF lookahead = 103 THEN ADVANCE(77) ELSE  (* 'g' *)
  IF lookahead = 104 THEN ADVANCE(281) ELSE  (* 'h' *)
  IF lookahead = 108 THEN ADVANCE(12) ELSE  (* 'l' *)
  IF lookahead = 111 THEN ADVANCE(41) ELSE  (* 'o' *)
  IF lookahead = 112 THEN ADVANCE(13) ELSE  (* 'p' *)
  IF lookahead = 114 THEN ADVANCE(27) ELSE  (* 'r' *)
  IF lookahead = 115 THEN ADVANCE(22) ELSE  (* 's' *)
  IF lookahead = 116 THEN ADVANCE(28) ELSE  (* 't' *)
  IF lookahead = 117 THEN ADVANCE(84) ELSE  (* 'u' *)
  IF lookahead = 119 THEN ADVANCE(278) ELSE  (* 'w' *)
  IF lookahead = 123 THEN ADVANCE(259) ELSE  (* '{' *)
  IF lookahead = 125 THEN ADVANCE(260) ELSE  (* '}' *)
  IF (9 <= lookahead /\ lookahead <= 13) \/ lookahead = 32 THEN SKIP(116) ELSE  (* ('\t' <= lookahead && lookahead <= '\r') || lookahead == ' ' *)
  END_STATE

ts_lex_117(lookahead, eof) ==
  ACCEPT_TOKEN(ts_builtin_sym_end,
  END_STATE)

ts_lex_118(lookahead, eof) ==
  ACCEPT_TOKEN(sym_comment,
  IF (48 <= lookahead /\ lookahead <= 57) \/ (65 <= lookahead /\ lookahead <= 70) \/ (97 <= lookahead /\ lookahead <= 102) THEN ADVANCE(478) ELSE  (* ('0' <= lookahead && lookahead <= '9') || ('A' <= lookahead && lookahead <= 'F') || ('a' <= lookahead && lookahead <= 'f') *)
  IF lookahead # 0 /\ lookahead # 10 THEN ADVANCE(120) ELSE  (* lookahead != 0 && lookahead != '\n' *)
  END_STATE)

\* C19 mutant: case 119 (`#` and one hex digit) takes a second hex digit
\* straight to the accepting state of a colour: `#` and two digits is a hex_color
ts_lex_119_C19(lookahead, eof) ==
  ACCEPT_TOKEN(sym_comment,
  IF (48 <= lookahead /\ lookahead <= 57) \/ (65 <= lookahead /\ lookahead <= 70) \/ (97 <= lookahead /\ lookahead <= 102) THEN ADVANCE(478) ELSE
  IF lookahead # 0 /\ lookahead # 10 THEN ADVANCE(120) ELSE
  END_STATE)

ts_lex_119(lookahead, eof) ==
  ACCEPT_TOKEN(sym_comment,
  IF (48 <= lookahead /\ lookahead <= 57) \/ (65 <= lookahead /\ lookahead <= 70) \/ (97 <= lookahead /\ lookahead <= 102) THEN ADVANCE(118) ELSE  (* ('0' <= lookahead && lookahead <= '9') || ('A' <= lookahead && lookahead <= 'F') || ('a' <= lookahead && lookahead <= 'f') *)
  IF lookahead # 0 /\ lookahead # 10 THEN ADVANCE(120) ELSE  (* lookahead != 0 && lookahead != '\n' *)
  END_STATE)

\* C1 mutant: case 120 (the rest of a comment) forgets that lookahead is 0
\* at the end of the input and advances to itself for ever
ts_lex_120_C1(lookahead, eof) ==
  ACCEPT_TOKEN(sym_comment,
  IF lookahead # 10 THEN ADVANCE(120) ELSE
  END_STATE)

ts_lex_120(lookahead, eof) ==
  ACCEPT_TOKEN(sym_comment,
  IF lookahead # 0 /\ lookahead # 10 THEN ADVANCE(120) ELSE  (* lookahead != 0 && lookahead != '\n' *)
  END_STATE)

ts_lex_121(lookahead, eof) ==
  ACCEPT_TOKEN(anon_sym_POUND_POUND,
  END_STATE)

ts_lex_122(lookahead, eof) ==
  ACCEPT_TOKEN(anon_sym_POUND_POUND,
  IF lookahead # 0 /\ lookahead # 10 THEN ADVANCE(247) ELSE  (* lookahead != 0 && lookahead != '\n' *)
  END_STATE)

\* C32 mutant: case 123 (after a `:`) accepts the token `=`: no lex mode
\* returns the colon that the states after a property name shift
ts_lex_123_C32(lookahead, eof) ==
  ACCEPT_TOKEN(anon_sym_EQ,
  END_STATE)

ts_lex_123(lookahead, eof) ==
  ACCEPT_TOKEN(anon_sym_COLON,
  END_STATE)

ts_lex_124(lookahead, eof) ==
  ACCEPT_TOKEN(sym_annotation_text,
  IF lookahead = 34 THEN ADVANCE(480) ELSE  (* '"' *)
  IF lookahead = 35 THEN ADVANCE(128) ELSE  (* '#' *)
  IF lookahead = 64 THEN ADVANCE(343) ELSE  (* '@' *)
  IF lookahead = 97 THEN ADVANCE(145) ELSE  (* 'a' *)
  IF lookahead = 101 THEN ADVANCE(185) ELSE  (* 'e' *)
  IF lookahead = 103 THEN ADVANCE(208) ELSE  (* 'g' *)
  IF lookahead = 112 THEN ADVANCE(131) ELSE  (* 'p' *)
  IF lookahead = 114 THEN ADVANCE(163) ELSE  (* 'r' *)
  IF lookahead = 115 THEN ADVANCE(228) ELSE  (* 's' *)
  IF lookahead = 116 THEN ADVANCE(133) ELSE  (* 't' *)
  IF lookahead = 9 \/ (11 <= lookahead /\ lookahead <= 13) \/ lookahead = 32 THEN ADVANCE(124) ELSE  (* lookahead == '\t' || (0x0b <= lookahead && lookahead <= '\r') || lookahead == ' ' *)
  IF lookahead # 0 /\ (lookahead < 9 \/ 13 < lookahead) THEN ADVANCE(247) ELSE  (* lookahead != 0 && (lookahead < '\t' || '\r' < lookahead) *)
  END_STATE)

ts_lex_125(lookahead, eof) ==
  ACCEPT_TOKEN(sym_annotation_text,
  IF lookahead = 34 THEN ADVANCE(480) ELSE  (* '"' *)
  IF lookahead = 35 THEN ADVANCE(128) ELSE  (* '#' *)
  IF lookahead = 97 THEN ADVANCE(144) ELSE  (* 'a' *)
  IF lookahead = 98 THEN ADVANCE(169) ELSE  (* 'b' *)
  IF lookahead = 99 THEN ADVANCE(152) ELSE  (* 'c' *)
  IF lookahead = 100 THEN ADVANCE(238) ELSE  (* 'd' *)
  IF lookahead = 101 THEN ADVANCE(141) ELSE  (* 'e' *)
  IF lookahead = 102 THEN ADVANCE(176) ELSE  (* 'f' *)
  IF lookahead = 103 THEN ADVANCE(208) ELSE  (* 'g' *)
  IF lookahead = 104 THEN ADVANCE(282) ELSE  (* 'h' *)
  IF lookahead = 108 THEN ADVANCE(130) ELSE  (* 'l' *)
  IF lookahead = 111 THEN ADVANCE(167) ELSE  (* 'o' *)
  IF lookahead = 112 THEN ADVANCE(131) ELSE  (* 'p' *)
  IF lookahead = 114 THEN ADVANCE(162) ELSE  (* 'r' *)
  IF lookahead = 115 THEN ADVANCE(147) ELSE  (* 's' *)
  IF lookahead = 116 THEN ADVANCE(132) ELSE  (* 't' *)
  IF lookahead = 117 THEN ADVANCE(214) ELSE  (* 'u' *)
  IF lookahead = 119 THEN ADVANCE(279) ELSE  (* 'w' *)
  IF lookahead = 125 THEN ADVANCE(261) ELSE  (* '}' *)
  IF lookahead = 9 \/ (11 <= lookahead /\ lookahead <= 13) \/ lookahead = 32 THEN ADVANCE(125) ELSE  (* lookahead == '\t' || (0x0b <= lookahead && lookahead <= '\r') || lookahead == ' ' *)
  IF lookahead # 0 /\ (lookahead < 9 \/ 13 < lookahead) THEN ADVANCE(247) ELSE  (* lookahead != 0 && (lookahead < '\t' || '\r' < lookahead) *)
  END_STATE)

ts_lex_126(lookahead, eof) ==
  ACCEPT_TOKEN(sym_annotation_text,
  IF lookahead = 34 THEN ADVANCE(480) ELSE  (* lookahead == '"' *)
  IF lookahead = 35 THEN ADVANCE(127) ELSE  (* lookahead == '#' *)
  IF lookahead = 9 \/ (11 <= lookahead /\ lookahead <= 13) \/ lookahead = 32 THEN ADVANCE(126) ELSE  (* lookahead == '\t' || (0x0b <= lookahead && lookahead <= '\r') || lookahead == ' ' *)
  IF lookahead # 0 /\ (lookahead < 9 \/ 13 < lookahead) THEN ADVANCE(247) ELSE  (* lookahead != 0 && (lookahead < '\t' || '\r' < lookahead) *)
  END_STATE)

ts_lex_127(lookahead, eof) ==
  ACCEPT_TOKEN(sym_annotation_text,
  IF lookahead = 35 THEN ADVANCE(247) ELSE  (* lookahead == '#' *)
  IF lookahead # 0 /\ lookahead # 10 THEN ADVANCE(247) ELSE  (* lookahead != 0 && lookahead != '\n' *)
  END_STATE)

ts_lex_128(lookahead, eof) ==
  ACCEPT_TOKEN(sym_annotation_text,
  IF lookahead = 35 THEN ADVANCE(122) ELSE  (* lookahead == '#' *)
  IF lookahead # 0 /\ lookahead # 10 THEN ADVANCE(247) ELSE  (* lookahead != 0 && lookahead != '\n' *)
  END_STATE)

ts_lex_129_168(state, lookahead, eof) ==
  CASE state = 129 ->
         ACCEPT_TOKEN(sym_annotation_text,
         IF lookahead = 95 THEN ADVANCE(180) ELSE  (* lookahead == '_' *)
         IF lookahead # 0 /\ lookahead # 10 THEN ADVANCE(247) ELSE  (* lookahead != 0 && lookahead != '\n' *)
         END_STATE)
    [] state = 130 ->
         ACCEPT_TOKEN(sym_annotation_text,
         IF lookahead = 97 THEN ADVANCE(246) ELSE  (* lookahead == 'a' *)
         IF lookahead # 0 /\ lookahead # 10 THEN ADVANCE(247) ELSE  (* lookahead != 0 && lookahead != '\n' *)
         END_STATE)
    [] state = 131 ->
         ACCEPT_TOKEN(sym_annotation_text,
         IF lookahead = 97 THEN ADVANCE(220) ELSE  (* lookahead == 'a' *)
         IF lookahead = 114 THEN ADVANCE(177) ELSE  (* lookahead == 'r' *)
         IF lookahead # 0 /\ lookahead # 10 THEN ADVANCE(247) ELSE  (* lookahead != 0 && lookahead != '\n' *)
         END_STATE)
    [] state = 132 ->
         ACCEPT_TOKEN(sym_annotation_text,
         IF lookahead = 97 THEN ADVANCE(170) ELSE  (* lookahead == 'a' *)
         IF lookahead = 101 THEN ADVANCE(243) ELSE  (* lookahead == 'e' *)
         IF lookahead = 114 THEN ADVANCE(136) ELSE  (* lookahead == 'r' *)
         IF lookahead # 0 /\ lookahead # 10 THEN ADVANCE(247) ELSE  (* lookahead != 0 && lookahead != '\n' *)
         END_STATE)
    [] state = 133 ->
         ACCEPT_TOKEN(sym_annotation_text,
         IF lookahead = 97 THEN ADVANCE(170) ELSE  (* lookahead == 'a' *)
         IF lookahead = 101 THEN ADVANCE(243) ELSE  (* lookahead == 'e' *)
         IF lookahead # 0 /\ lookahead # 10 THEN ADVANCE(247) ELSE  (* lookahead != 0 && lookahead != '\n' *)
         END_STATE)
    [] state = 134 ->
         ACCEPT_TOKEN(sym_annotation_text,
         IF lookahead = 97 THEN ADVANCE(150) ELSE  (* lookahead == 'a' *)
         IF lookahead # 0 /\ lookahead # 10 THEN ADVANCE(247) ELSE  (* lookahead != 0 && lookahead != '\n' *)
         END_STATE)
    [] state = 135 ->
         ACCEPT_TOKEN(sym_annotation_text,
         IF lookahead = 97 THEN ADVANCE(148) ELSE  (* lookahead == 'a' *)
         IF lookahead # 0 /\ lookahead # 10 THEN ADVANCE(247) ELSE  (* lookahead != 0 && lookahead != '\n' *)
         END_STATE)
    [] state = 136 ->
         ACCEPT_TOKEN(sym_annotation_text,
         IF lookahead = 97 THEN ADVANCE(195) ELSE  (* lookahead == 'a' *)
         IF lookahead # 0 /\ lookahead # 10 THEN ADVANCE(247) ELSE  (* lookahead != 0 && lookahead != '\n' *)
         END_STATE)
    [] state = 137 ->
         ACCEPT_TOKEN(sym_annotation_text,
         IF lookahead = 97 THEN ADVANCE(189) ELSE  (* lookahead == 'a' *)
         IF lookahead # 0 /\ lookahead # 10 THEN ADVANCE(247) ELSE  (* lookahead != 0 && lookahead != '\n' *)
         END_STATE)
    [] state = 138 ->
         ACCEPT_TOKEN(sym_annotation_text,
         IF lookahead = 97 THEN ADVANCE(232) ELSE  (* lookahead == 'a' *)
         IF lookahead = 114 THEN ADVANCE(199) ELSE  (* lookahead == 'r' *)
         IF lookahead # 0 /\ lookahead # 10 THEN ADVANCE(247) ELSE  (* lookahead != 0 && lookahead != '\n' *)
         END_STATE)
    [] state = 139 ->
         ACCEPT_TOKEN(sym_annotation_text,
         IF lookahead = 97 THEN ADVANCE(232) ELSE  (* lookahead == 'a' *)
         IF lookahead = 121 THEN ADVANCE(190) ELSE  (* lookahead == 'y' *)
         IF lookahead # 0 /\ lookahead # 10 THEN ADVANCE(247) ELSE  (* lookahead != 0 && lookahead != '\n' *)
         END_STATE)
    [] state = 140 ->
         ACCEPT_TOKEN(sym_annotation_text,
         IF lookahead = 97 THEN ADVANCE(234) ELSE  (* lookahead == 'a' *)
         IF lookahead # 0 /\ lookahead # 10 THEN ADVANCE(247) ELSE  (* lookahead != 0 && lookahead != '\n' *)
         END_STATE)
    [] state = 141 ->
         ACCEPT_TOKEN(sym_annotation_text,
         IF lookahead = 97 THEN ADVANCE(216) ELSE  (* lookahead == 'a' *)
         IF lookahead = 108 THEN ADVANCE(188) ELSE  (* lookahead == 'l' *)
         IF lookahead # 0 /\ lookahead # 10 THEN ADVANCE(247) ELSE  (* lookahead != 0 && lookahead != '\n' *)
         END_STATE)
    [] state = 142 ->
         ACCEPT_TOKEN(sym_annotation_text,
         IF lookahead = 97 THEN ADVANCE(236) ELSE  (* lookahead == 'a' *)
         IF lookahead # 0 /\ lookahead # 10 THEN ADVANCE(247) ELSE  (* lookahead != 0 && lookahead != '\n' *)
         END_STATE)
    [] state = 143 ->
         ACCEPT_TOKEN(sym_annotation_text,
         IF lookahead = 97 THEN ADVANCE(237) ELSE  (* lookahead == 'a' *)
         IF lookahead # 0 /\ lookahead # 10 THEN ADVANCE(247) ELSE  (* lookahead != 0 && lookahead != '\n' *)
         END_STATE)
    [] state = 144 ->
         ACCEPT_TOKEN(sym_annotation_text,
         IF lookahead = 99 THEN ADVANCE(146) ELSE  (* lookahead == 'c' *)
         IF lookahead = 110 THEN ADVANCE(175) ELSE  (* lookahead == 'n' *)
         IF lookahead # 0 /\ lookahead # 10 THEN ADVANCE(247) ELSE  (* lookahead != 0 && lookahead != '\n' *)
         END_STATE)
    [] state = 145 ->
         ACCEPT_TOKEN(sym_annotation_text,
         IF lookahead = 99 THEN ADVANCE(146) ELSE  (* lookahead == 'c' *)
         IF lookahead # 0 /\ lookahead # 10 THEN ADVANCE(247) ELSE  (* lookahead != 0 && lookahead != '\n' *)
         END_STATE)
    [] state = 146 ->
         ACCEPT_TOKEN(sym_annotation_text,
         IF lookahead = 99 THEN ADVANCE(154) ELSE  (* lookahead == 'c' *)
         IF lookahead # 0 /\ lookahead # 10 THEN ADVANCE(247) ELSE  (* lookahead != 0 && lookahead != '\n' *)
         END_STATE)
    [] state = 147 ->
         ACCEPT_TOKEN(sym_annotation_text,
         IF lookahead = 99 THEN ADVANCE(137) ELSE  (* lookahead == 'c' *)
         IF lookahead = 104 THEN ADVANCE(134) ELSE  (* lookahead == 'h' *)
         IF lookahead = 116 THEN ADVANCE(138) ELSE  (* lookahead == 't' *)
         IF lookahead # 0 /\ lookahead # 10 THEN ADVANCE(247) ELSE  (* lookahead != 0 && lookahead != '\n' *)
         END_STATE)
    [] state = 148 ->
         ACCEPT_TOKEN(sym_annotation_text,
         IF lookahead = 99 THEN ADVANCE(182) ELSE  (* lookahead == 'c' *)
         IF lookahead # 0 /\ lookahead # 10 THEN ADVANCE(247) ELSE  (* lookahead != 0 && lookahead != '\n' *)
         END_STATE)
    [] state = 149 ->
         ACCEPT_TOKEN(sym_annotation_text,
         IF lookahead = 99 THEN ADVANCE(222) ELSE  (* lookahead == 'c' *)
         IF lookahead # 0 /\ lookahead # 10 THEN ADVANCE(247) ELSE  (* lookahead != 0 && lookahead != '\n' *)
         END_STATE)
    [] state = 150 ->
         ACCEPT_TOKEN(sym_annotation_text,
         IF lookahead = 100 THEN ADVANCE(200) ELSE  (* lookahead == 'd' *)
         IF lookahead # 0 /\ lookahead # 10 THEN ADVANCE(247) ELSE  (* lookahead != 0 && lookahead != '\n' *)
         END_STATE)
    [] state = 151 ->
         ACCEPT_TOKEN(sym_annotation_text,
         IF lookahead = 100 THEN ADVANCE(231) ELSE  (* lookahead == 'd' *)
         IF lookahead # 0 /\ lookahead # 10 THEN ADVANCE(247) ELSE  (* lookahead != 0 && lookahead != '\n' *)
         END_STATE)
    [] state = 152 ->
         ACCEPT_TOKEN(sym_annotation_text,
         IF lookahead = 101 THEN ADVANCE(196) ELSE  (* lookahead == 'e' *)
         IF lookahead = 111 THEN ADVANCE(211) ELSE  (* lookahead == 'o' *)
         IF lookahead # 0 /\ lookahead # 10 THEN ADVANCE(247) ELSE  (* lookahead != 0 && lookahead != '\n' *)
         END_STATE)
    [] state = 153 ->
         ACCEPT_TOKEN(sym_annotation_text,
         IF lookahead = 101 THEN ADVANCE(309) ELSE  (* lookahead == 'e' *)
         IF lookahead # 0 /\ lookahead # 10 THEN ADVANCE(247) ELSE  (* lookahead != 0 && lookahead != '\n' *)
         END_STATE)
    [] state = 154 ->
         ACCEPT_TOKEN(sym_annotation_text,
         IF lookahead = 101 THEN ADVANCE(206) ELSE  (* lookahead == 'e' *)
         IF lookahead # 0 /\ lookahead # 10 THEN ADVANCE(247) ELSE  (* lookahead != 0 && lookahead != '\n' *)
         END_STATE)
    [] state = 155 ->
         ACCEPT_TOKEN(sym_annotation_text,
         IF lookahead = 101 THEN ADVANCE(333) ELSE  (* lookahead == 'e' *)
         IF lookahead # 0 /\ lookahead # 10 THEN ADVANCE(247) ELSE  (* lookahead != 0 && lookahead != '\n' *)
         END_STATE)
    [] state = 156 ->
         ACCEPT_TOKEN(sym_annotation_text,
         IF lookahead = 101 THEN ADVANCE(318) ELSE  (* lookahead == 'e' *)
         IF lookahead # 0 /\ lookahead # 10 THEN ADVANCE(247) ELSE  (* lookahead != 0 && lookahead != '\n' *)
         END_STATE)
    [] state = 157 ->
         ACCEPT_TOKEN(sym_annotation_text,
         IF lookahead = 101 THEN ADVANCE(321) ELSE  (* lookahead == 'e' *)
         IF lookahead # 0 /\ lookahead # 10 THEN ADVANCE(247) ELSE  (* lookahead != 0 && lookahead != '\n' *)
         END_STATE)
    [] state = 158 ->
         ACCEPT_TOKEN(sym_annotation_text,
         IF lookahead = 101 THEN ADVANCE(294) ELSE  (* lookahead == 'e' *)
         IF lookahead # 0 /\ lookahead # 10 THEN ADVANCE(247) ELSE  (* lookahead != 0 && lookahead != '\n' *)
         END_STATE)
    [] state = 159 ->
         ACCEPT_TOKEN(sym_annotation_text,
         IF lookahead = 101 THEN ADVANCE(270) ELSE  (* lookahead == 'e' *)
         IF lookahead # 0 /\ lookahead # 10 THEN ADVANCE(247) ELSE  (* lookahead != 0 && lookahead != '\n' *)
         END_STATE)
    [] state = 160 ->
         ACCEPT_TOKEN(sym_annotation_text,
         IF lookahead = 101 THEN ADVANCE(324) ELSE  (* lookahead == 'e' *)
         IF lookahead # 0 /\ lookahead # 10 THEN ADVANCE(247) ELSE  (* lookahead != 0 && lookahead != '\n' *)
         END_STATE)
    [] state = 161 ->
         ACCEPT_TOKEN(sym_annotation_text,
         IF lookahead = 101 THEN ADVANCE(258) ELSE  (* lookahead == 'e' *)
         IF lookahead # 0 /\ lookahead # 10 THEN ADVANCE(247) ELSE  (* lookahead != 0 && lookahead != '\n' *)
         END_STATE)
    [] state = 162 ->
         ACCEPT_TOKEN(sym_annotation_text,
         IF lookahead = 101 THEN ADVANCE(149) ELSE  (* lookahead == 'e' *)
         IF lookahead = 111 THEN ADVANCE(235) ELSE  (* lookahead == 'o' *)
         IF lookahead # 0 /\ lookahead # 10 THEN ADVANCE(247) ELSE  (* lookahead != 0 && lookahead != '\n' *)
         END_STATE)
    [] state = 163 ->
         ACCEPT_TOKEN(sym_annotation_text,
         IF lookahead = 101 THEN ADVANCE(149) ELSE  (* lookahead == 'e' *)
         IF lookahead # 0 /\ lookahead # 10 THEN ADVANCE(247) ELSE  (* lookahead != 0 && lookahead != '\n' *)
         END_STATE)
    [] state = 164 ->
         ACCEPT_TOKEN(sym_annotation_text,
         IF lookahead = 101 THEN ADVANCE(209) ELSE  (* lookahead == 'e' *)
         IF lookahead # 0 /\ lookahead # 10 THEN ADVANCE(247) ELSE  (* lookahead != 0 && lookahead != '\n' *)
         END_STATE)
    [] state = 165 ->
         ACCEPT_TOKEN(sym_annotation_text,
         IF lookahead = 101 THEN ADVANCE(210) ELSE  (* lookahead == 'e' *)
         IF lookahead # 0 /\ lookahead # 10 THEN ADVANCE(247) ELSE  (* lookahead != 0 && lookahead != '\n' *)
         END_STATE)
    [] state = 166 ->
         ACCEPT_TOKEN(sym_annotation_text,
         IF lookahead = 101 THEN ADVANCE(227) ELSE  (* lookahead == 'e' *)
         IF lookahead # 0 /\ lookahead # 10 THEN ADVANCE(247) ELSE  (* lookahead != 0 && lookahead != '\n' *)
         END_STATE)
    [] state = 167 ->
         ACCEPT_TOKEN(sym_annotation_text,
         IF lookahead = 102 THEN ADVANCE(168) ELSE  (* lookahead == 'f' *)
         IF lookahead = 112 THEN ADVANCE(135) ELSE  (* lookahead == 'p' *)
         IF lookahead # 0 /\ lookahead # 10 THEN ADVANCE(247) ELSE  (* lookahead != 0 && lookahead != '\n' *)
         END_STATE)
    [] state = 168 ->
         ACCEPT_TOKEN(sym_annotation_text,
         IF lookahead = 102 THEN ADVANCE(218) ELSE  (* lookahead == 'f' *)
         IF lookahead # 0 /\ lookahead # 10 THEN ADVANCE(247) ELSE  (* lookahead != 0 && lookahead != '\n' *)
         END_STATE)

ts_lex_169_208(state, lookahead, eof) ==
  CASE state = 169 ->
         ACCEPT_TOKEN(sym_annotation_text,
         IF lookahead = 103 THEN ADVANCE(306) ELSE  (* lookahead == 'g' *)
         IF lookahead # 0 /\ lookahead # 10 THEN ADVANCE(247) ELSE  (* lookahead != 0 && lookahead != '\n' *)
         END_STATE)
    [] state = 170 ->
         ACCEPT_TOKEN(sym_annotation_text,
         IF lookahead = 103 THEN ADVANCE(255) ELSE  (* lookahead == 'g' *)
         IF lookahead # 0 /\ lookahead # 10 THEN ADVANCE(247) ELSE  (* lookahead != 0 && lookahead != '\n' *)
         END_STATE)
    [] state = 171 ->
         ACCEPT_TOKEN(sym_annotation_text,
         IF lookahead = 103 THEN ADVANCE(174) ELSE  (* lookahead == 'g' *)
         IF lookahead # 0 /\ lookahead # 10 THEN ADVANCE(247) ELSE  (* lookahead != 0 && lookahead != '\n' *)
         END_STATE)
    [] state = 172 ->
         ACCEPT_TOKEN(sym_annotation_text,
         IF lookahead = 104 THEN ADVANCE(273) ELSE  (* lookahead == 'h' *)
         IF lookahead # 0 /\ lookahead # 10 THEN ADVANCE(247) ELSE  (* lookahead != 0 && lookahead != '\n' *)
         END_STATE)
    [] state = 173 ->
         ACCEPT_TOKEN(sym_annotation_text,
         IF lookahead = 104 THEN ADVANCE(285) ELSE  (* lookahead == 'h' *)
         IF lookahead # 0 /\ lookahead # 10 THEN ADVANCE(247) ELSE  (* lookahead != 0 && lookahead != '\n' *)
         END_STATE)
    [] state = 174 ->
         ACCEPT_TOKEN(sym_annotation_text,
         IF lookahead = 104 THEN ADVANCE(225) ELSE  (* lookahead == 'h' *)
         IF lookahead # 0 /\ lookahead # 10 THEN ADVANCE(247) ELSE  (* lookahead != 0 && lookahead != '\n' *)
         END_STATE)
    [] state = 175 ->
         ACCEPT_TOKEN(sym_annotation_text,
         IF lookahead = 105 THEN ADVANCE(192) ELSE  (* lookahead == 'i' *)
         IF lookahead # 0 /\ lookahead # 10 THEN ADVANCE(247) ELSE  (* lookahead != 0 && lookahead != '\n' *)
         END_STATE)
    [] state = 176 ->
         ACCEPT_TOKEN(sym_annotation_text,
         IF lookahead = 105 THEN ADVANCE(187) ELSE  (* lookahead == 'i' *)
         IF lookahead = 111 THEN ADVANCE(197) ELSE  (* lookahead == 'o' *)
         IF lookahead # 0 /\ lookahead # 10 THEN ADVANCE(247) ELSE  (* lookahead != 0 && lookahead != '\n' *)
         END_STATE)
    [] state = 177 ->
         ACCEPT_TOKEN(sym_annotation_text,
         IF lookahead = 105 THEN ADVANCE(203) ELSE  (* lookahead == 'i' *)
         IF lookahead # 0 /\ lookahead # 10 THEN ADVANCE(247) ELSE  (* lookahead != 0 && lookahead != '\n' *)
         END_STATE)
    [] state = 178 ->
         ACCEPT_TOKEN(sym_annotation_text,
         IF lookahead = 105 THEN ADVANCE(207) ELSE  (* lookahead == 'i' *)
         IF lookahead # 0 /\ lookahead # 10 THEN ADVANCE(247) ELSE  (* lookahead != 0 && lookahead != '\n' *)
         END_STATE)
    [] state = 179 ->
         ACCEPT_TOKEN(sym_annotation_text,
         IF lookahead = 105 THEN ADVANCE(171) ELSE  (* lookahead == 'i' *)
         IF lookahead # 0 /\ lookahead # 10 THEN ADVANCE(247) ELSE  (* lookahead != 0 && lookahead != '\n' *)
         END_STATE)
    [] state = 180 ->
         ACCEPT_TOKEN(sym_annotation_text,
         IF lookahead = 105 THEN ADVANCE(194) ELSE  (* lookahead == 'i' *)
         IF lookahead # 0 /\ lookahead # 10 THEN ADVANCE(247) ELSE  (* lookahead != 0 && lookahead != '\n' *)
         END_STATE)
    [] state = 181 ->
         ACCEPT_TOKEN(sym_annotation_text,
         IF lookahead = 105 THEN ADVANCE(204) ELSE  (* lookahead == 'i' *)
         IF lookahead # 0 /\ lookahead # 10 THEN ADVANCE(247) ELSE  (* lookahead != 0 && lookahead != '\n' *)
         END_STATE)
    [] state = 182 ->
         ACCEPT_TOKEN(sym_annotation_text,
         IF lookahead = 105 THEN ADVANCE(229) ELSE  (* lookahead == 'i' *)
         IF lookahead # 0 /\ lookahead # 10 THEN ADVANCE(247) ELSE  (* lookahead != 0 && lookahead != '\n' *)
         END_STATE)
    [] state = 183 ->
         ACCEPT_TOKEN(sym_annotation_text,
         IF lookahead = 105 THEN ADVANCE(230) ELSE  (* lookahead == 'i' *)
         IF lookahead # 0 /\ lookahead # 10 THEN ADVANCE(247) ELSE  (* lookahead != 0 && lookahead != '\n' *)
         END_STATE)
    [] state = 184 ->
         ACCEPT_TOKEN(sym_annotation_text,
         IF lookahead = 107 THEN ADVANCE(158) ELSE  (* lookahead == 'k' *)
         IF lookahead # 0 /\ lookahead # 10 THEN ADVANCE(247) ELSE  (* lookahead != 0 && lookahead != '\n' *)
         END_STATE)
    [] state = 185 ->
         ACCEPT_TOKEN(sym_annotation_text,
         IF lookahead = 108 THEN ADVANCE(188) ELSE  (* lookahead == 'l' *)
         IF lookahead # 0 /\ lookahead # 10 THEN ADVANCE(247) ELSE  (* lookahead != 0 && lookahead != '\n' *)
         END_STATE)
    [] state = 186 ->
         ACCEPT_TOKEN(sym_annotation_text,
         IF lookahead = 108 THEN ADVANCE(291) ELSE  (* lookahead == 'l' *)
         IF lookahead # 0 /\ lookahead # 10 THEN ADVANCE(247) ELSE  (* lookahead != 0 && lookahead != '\n' *)
         END_STATE)
    [] state = 187 ->
         ACCEPT_TOKEN(sym_annotation_text,
         IF lookahead = 108 THEN ADVANCE(186) ELSE  (* lookahead == 'l' *)
         IF lookahead # 0 /\ lookahead # 10 THEN ADVANCE(247) ELSE  (* lookahead != 0 && lookahead != '\n' *)
         END_STATE)
    [] state = 188 ->
         ACCEPT_TOKEN(sym_annotation_text,
         IF lookahead = 108 THEN ADVANCE(178) ELSE  (* lookahead == 'l' *)
         IF lookahead # 0 /\ lookahead # 10 THEN ADVANCE(247) ELSE  (* lookahead != 0 && lookahead != '\n' *)
         END_STATE)
    [] state = 189 ->
         ACCEPT_TOKEN(sym_annotation_text,
         IF lookahead = 108 THEN ADVANCE(156) ELSE  (* lookahead == 'l' *)
         IF lookahead # 0 /\ lookahead # 10 THEN ADVANCE(247) ELSE  (* lookahead != 0 && lookahead != '\n' *)
         END_STATE)
    [] state = 190 ->
         ACCEPT_TOKEN(sym_annotation_text,
         IF lookahead = 108 THEN ADVANCE(161) ELSE  (* lookahead == 'l' *)
         IF lookahead # 0 /\ lookahead # 10 THEN ADVANCE(247) ELSE  (* lookahead != 0 && lookahead != '\n' *)
         END_STATE)
    [] state = 191 ->
         ACCEPT_TOKEN(sym_annotation_text,
         IF lookahead = 108 THEN ADVANCE(143) ELSE  (* lookahead == 'l' *)
         IF lookahead # 0 /\ lookahead # 10 THEN ADVANCE(247) ELSE  (* lookahead != 0 && lookahead != '\n' *)
         END_STATE)
    [] state = 192 ->
         ACCEPT_TOKEN(sym_annotation_text,
         IF lookahead = 109 THEN ADVANCE(340) ELSE  (* lookahead == 'm' *)
         IF lookahead # 0 /\ lookahead # 10 THEN ADVANCE(247) ELSE  (* lookahead != 0 && lookahead != '\n' *)
         END_STATE)
    [] state = 193 ->
         ACCEPT_TOKEN(sym_annotation_text,
         IF lookahead = 110 THEN ADVANCE(336) ELSE  (* lookahead == 'n' *)
         IF lookahead # 0 /\ lookahead # 10 THEN ADVANCE(247) ELSE  (* lookahead != 0 && lookahead != '\n' *)
         END_STATE)
    [] state = 194 ->
         ACCEPT_TOKEN(sym_annotation_text,
         IF lookahead = 110 THEN ADVANCE(327) ELSE  (* lookahead == 'n' *)
         IF lookahead # 0 /\ lookahead # 10 THEN ADVANCE(247) ELSE  (* lookahead != 0 && lookahead != '\n' *)
         END_STATE)
    [] state = 195 ->
         ACCEPT_TOKEN(sym_annotation_text,
         IF lookahead = 110 THEN ADVANCE(217) ELSE  (* lookahead == 'n' *)
         IF lookahead # 0 /\ lookahead # 10 THEN ADVANCE(247) ELSE  (* lookahead != 0 && lookahead != '\n' *)
         END_STATE)
    [] state = 196 ->
         ACCEPT_TOKEN(sym_annotation_text,
         IF lookahead = 110 THEN ADVANCE(233) ELSE  (* lookahead == 'n' *)
         IF lookahead # 0 /\ lookahead # 10 THEN ADVANCE(247) ELSE  (* lookahead != 0 && lookahead != '\n' *)
         END_STATE)
    [] state = 197 ->
         ACCEPT_TOKEN(sym_annotation_text,
         IF lookahead = 110 THEN ADVANCE(221) ELSE  (* lookahead == 'n' *)
         IF lookahead # 0 /\ lookahead # 10 THEN ADVANCE(247) ELSE  (* lookahead != 0 && lookahead != '\n' *)
         END_STATE)
    [] state = 198 ->
         ACCEPT_TOKEN(sym_annotation_text,
         IF lookahead = 110 THEN ADVANCE(165) ELSE  (* lookahead == 'n' *)
         IF lookahead # 0 /\ lookahead # 10 THEN ADVANCE(247) ELSE  (* lookahead != 0 && lookahead != '\n' *)
         END_STATE)
    [] state = 199 ->
         ACCEPT_TOKEN(sym_annotation_text,
         IF lookahead = 111 THEN ADVANCE(184) ELSE  (* lookahead == 'o' *)
         IF lookahead # 0 /\ lookahead # 10 THEN ADVANCE(247) ELSE  (* lookahead != 0 && lookahead != '\n' *)
         END_STATE)
    [] state = 200 ->
         ACCEPT_TOKEN(sym_annotation_text,
         IF lookahead = 111 THEN ADVANCE(242) ELSE  (* lookahead == 'o' *)
         IF lookahead # 0 /\ lookahead # 10 THEN ADVANCE(247) ELSE  (* lookahead != 0 && lookahead != '\n' *)
         END_STATE)
    [] state = 201 ->
         ACCEPT_TOKEN(sym_annotation_text,
         IF lookahead = 111 THEN ADVANCE(240) ELSE  (* lookahead == 'o' *)
         IF lookahead # 0 /\ lookahead # 10 THEN ADVANCE(247) ELSE  (* lookahead != 0 && lookahead != '\n' *)
         END_STATE)
    [] state = 202 ->
         ACCEPT_TOKEN(sym_annotation_text,
         IF lookahead = 111 THEN ADVANCE(241) ELSE  (* lookahead == 'o' *)
         IF lookahead # 0 /\ lookahead # 10 THEN ADVANCE(247) ELSE  (* lookahead != 0 && lookahead != '\n' *)
         END_STATE)
    [] state = 203 ->
         ACCEPT_TOKEN(sym_annotation_text,
         IF lookahead = 111 THEN ADVANCE(213) ELSE  (* lookahead == 'o' *)
         IF lookahead # 0 /\ lookahead # 10 THEN ADVANCE(247) ELSE  (* lookahead != 0 && lookahead != '\n' *)
         END_STATE)
    [] state = 204 ->
         ACCEPT_TOKEN(sym_annotation_text,
         IF lookahead = 111 THEN ADVANCE(193) ELSE  (* lookahead == 'o' *)
         IF lookahead # 0 /\ lookahead # 10 THEN ADVANCE(247) ELSE  (* lookahead != 0 && lookahead != '\n' *)
         END_STATE)
    [] state = 205 ->
         ACCEPT_TOKEN(sym_annotation_text,
         IF lookahead = 112 THEN ADVANCE(264) ELSE  (* lookahead == 'p' *)
         IF lookahead # 0 /\ lookahead # 10 THEN ADVANCE(247) ELSE  (* lookahead != 0 && lookahead != '\n' *)
         END_STATE)
    [] state = 206 ->
         ACCEPT_TOKEN(sym_annotation_text,
         IF lookahead = 112 THEN ADVANCE(224) ELSE  (* lookahead == 'p' *)
         IF lookahead # 0 /\ lookahead # 10 THEN ADVANCE(247) ELSE  (* lookahead != 0 && lookahead != '\n' *)
         END_STATE)
    [] state = 207 ->
         ACCEPT_TOKEN(sym_annotation_text,
         IF lookahead = 112 THEN ADVANCE(219) ELSE  (* lookahead == 'p' *)
         IF lookahead # 0 /\ lookahead # 10 THEN ADVANCE(247) ELSE  (* lookahead != 0 && lookahead != '\n' *)
         END_STATE)
    [] state = 208 ->
         ACCEPT_TOKEN(sym_annotation_text,
         IF lookahead = 114 THEN ADVANCE(201) ELSE  (* lookahead == 'r' *)
         IF lookahead # 0 /\ lookahead # 10 THEN ADVANCE(247) ELSE  (* lookahead != 0 && lookahead != '\n' *)
         END_STATE)

ts_lex_209_246(state, lookahead, eof) ==
  CASE state = 209 ->
         ACCEPT_TOKEN(sym_annotation_text,
         IF lookahead = 114 THEN ADVANCE(129) ELSE  (* lookahead == 'r' *)
         IF lookahead # 0 /\ lookahead # 10 THEN ADVANCE(247) ELSE  (* lookahead != 0 && lookahead != '\n' *)
         END_STATE)
    [] state = 210 ->
         ACCEPT_TOKEN(sym_annotation_text,
         IF lookahead = 114 THEN ADVANCE(297) ELSE  (* lookahead == 'r' *)
         IF lookahead # 0 /\ lookahead # 10 THEN ADVANCE(247) ELSE  (* lookahead != 0 && lookahead != '\n' *)
         END_STATE)
    [] state = 211 ->
         ACCEPT_TOKEN(sym_annotation_text,
         IF lookahead = 114 THEN ADVANCE(198) ELSE  (* lookahead == 'r' *)
         IF lookahead # 0 /\ lookahead # 10 THEN ADVANCE(247) ELSE  (* lookahead != 0 && lookahead != '\n' *)
         END_STATE)
    [] state = 212 ->
         ACCEPT_TOKEN(sym_annotation_text,
         IF lookahead = 114 THEN ADVANCE(140) ELSE  (* lookahead == 'r' *)
         IF lookahead # 0 /\ lookahead # 10 THEN ADVANCE(247) ELSE  (* lookahead != 0 && lookahead != '\n' *)
         END_STATE)
    [] state = 213 ->
         ACCEPT_TOKEN(sym_annotation_text,
         IF lookahead = 114 THEN ADVANCE(183) ELSE  (* lookahead == 'r' *)
         IF lookahead # 0 /\ lookahead # 10 THEN ADVANCE(247) ELSE  (* lookahead != 0 && lookahead != '\n' *)
         END_STATE)
    [] state = 214 ->
         ACCEPT_TOKEN(sym_annotation_text,
         IF lookahead = 115 THEN ADVANCE(153) ELSE  (* lookahead == 's' *)
         IF lookahead # 0 /\ lookahead # 10 THEN ADVANCE(247) ELSE  (* lookahead != 0 && lookahead != '\n' *)
         END_STATE)
    [] state = 215 ->
         ACCEPT_TOKEN(sym_annotation_text,
         IF lookahead = 115 THEN ADVANCE(251) ELSE  (* lookahead == 's' *)
         IF lookahead # 0 /\ lookahead # 10 THEN ADVANCE(247) ELSE  (* lookahead != 0 && lookahead != '\n' *)
         END_STATE)
    [] state = 216 ->
         ACCEPT_TOKEN(sym_annotation_text,
         IF lookahead = 115 THEN ADVANCE(155) ELSE  (* lookahead == 's' *)
         IF lookahead # 0 /\ lookahead # 10 THEN ADVANCE(247) ELSE  (* lookahead != 0 && lookahead != '\n' *)
         END_STATE)
    [] state = 217 ->
         ACCEPT_TOKEN(sym_annotation_text,
         IF lookahead = 115 THEN ADVANCE(191) ELSE  (* lookahead == 's' *)
         IF lookahead # 0 /\ lookahead # 10 THEN ADVANCE(247) ELSE  (* lookahead != 0 && lookahead != '\n' *)
         END_STATE)
    [] state = 218 ->
         ACCEPT_TOKEN(sym_annotation_text,
         IF lookahead = 115 THEN ADVANCE(166) ELSE  (* lookahead == 's' *)
         IF lookahead # 0 /\ lookahead # 10 THEN ADVANCE(247) ELSE  (* lookahead != 0 && lookahead != '\n' *)
         END_STATE)
    [] state = 219 ->
         ACCEPT_TOKEN(sym_annotation_text,
         IF lookahead = 115 THEN ADVANCE(159) ELSE  (* lookahead == 's' *)
         IF lookahead # 0 /\ lookahead # 10 THEN ADVANCE(247) ELSE  (* lookahead != 0 && lookahead != '\n' *)
         END_STATE)
    [] state = 220 ->
         ACCEPT_TOKEN(sym_annotation_text,
         IF lookahead = 116 THEN ADVANCE(172) ELSE  (* lookahead == 't' *)
         IF lookahead # 0 /\ lookahead # 10 THEN ADVANCE(247) ELSE  (* lookahead != 0 && lookahead != '\n' *)
         END_STATE)
    [] state = 221 ->
         ACCEPT_TOKEN(sym_annotation_text,
         IF lookahead = 116 THEN ADVANCE(303) ELSE  (* lookahead == 't' *)
         IF lookahead # 0 /\ lookahead # 10 THEN ADVANCE(247) ELSE  (* lookahead != 0 && lookahead != '\n' *)
         END_STATE)
    [] state = 222 ->
         ACCEPT_TOKEN(sym_annotation_text,
         IF lookahead = 116 THEN ADVANCE(267) ELSE  (* lookahead == 't' *)
         IF lookahead # 0 /\ lookahead # 10 THEN ADVANCE(247) ELSE  (* lookahead != 0 && lookahead != '\n' *)
         END_STATE)
    [] state = 223 ->
         ACCEPT_TOKEN(sym_annotation_text,
         IF lookahead = 116 THEN ADVANCE(276) ELSE  (* lookahead == 't' *)
         IF lookahead # 0 /\ lookahead # 10 THEN ADVANCE(247) ELSE  (* lookahead != 0 && lookahead != '\n' *)
         END_STATE)
    [] state = 224 ->
         ACCEPT_TOKEN(sym_annotation_text,
         IF lookahead = 116 THEN ADVANCE(249) ELSE  (* lookahead == 't' *)
         IF lookahead # 0 /\ lookahead # 10 THEN ADVANCE(247) ELSE  (* lookahead != 0 && lookahead != '\n' *)
         END_STATE)
    [] state = 225 ->
         ACCEPT_TOKEN(sym_annotation_text,
         IF lookahead = 116 THEN ADVANCE(288) ELSE  (* lookahead == 't' *)
         IF lookahead # 0 /\ lookahead # 10 THEN ADVANCE(247) ELSE  (* lookahead != 0 && lookahead != '\n' *)
         END_STATE)
    [] state = 226 ->
         ACCEPT_TOKEN(sym_annotation_text,
         IF lookahead = 116 THEN ADVANCE(312) ELSE  (* lookahead == 't' *)
         IF lookahead # 0 /\ lookahead # 10 THEN ADVANCE(247) ELSE  (* lookahead != 0 && lookahead != '\n' *)
         END_STATE)
    [] state = 227 ->
         ACCEPT_TOKEN(sym_annotation_text,
         IF lookahead = 116 THEN ADVANCE(330) ELSE  (* lookahead == 't' *)
         IF lookahead # 0 /\ lookahead # 10 THEN ADVANCE(247) ELSE  (* lookahead != 0 && lookahead != '\n' *)
         END_STATE)
    [] state = 228 ->
         ACCEPT_TOKEN(sym_annotation_text,
         IF lookahead = 116 THEN ADVANCE(139) ELSE  (* lookahead == 't' *)
         IF lookahead # 0 /\ lookahead # 10 THEN ADVANCE(247) ELSE  (* lookahead != 0 && lookahead != '\n' *)
         END_STATE)
    [] state = 229 ->
         ACCEPT_TOKEN(sym_annotation_text,
         IF lookahead = 116 THEN ADVANCE(244) ELSE  (* lookahead == 't' *)
         IF lookahead # 0 /\ lookahead # 10 THEN ADVANCE(247) ELSE  (* lookahead != 0 && lookahead != '\n' *)
         END_STATE)
    [] state = 230 ->
         ACCEPT_TOKEN(sym_annotation_text,
         IF lookahead = 116 THEN ADVANCE(245) ELSE  (* lookahead == 't' *)
         IF lookahead # 0 /\ lookahead # 10 THEN ADVANCE(247) ELSE  (* lookahead != 0 && lookahead != '\n' *)
         END_STATE)
    [] state = 231 ->
         ACCEPT_TOKEN(sym_annotation_text,
         IF lookahead = 116 THEN ADVANCE(173) ELSE  (* lookahead == 't' *)
         IF lookahead # 0 /\ lookahead # 10 THEN ADVANCE(247) ELSE  (* lookahead != 0 && lookahead != '\n' *)
         END_STATE)
    [] state = 232 ->
         ACCEPT_TOKEN(sym_annotation_text,
         IF lookahead = 116 THEN ADVANCE(239) ELSE  (* lookahead == 't' *)
         IF lookahead # 0 /\ lookahead # 10 THEN ADVANCE(247) ELSE  (* lookahead != 0 && lookahead != '\n' *)
         END_STATE)
    [] state = 233 ->
         ACCEPT_TOKEN(sym_annotation_text,
         IF lookahead = 116 THEN ADVANCE(164) ELSE  (* lookahead == 't' *)
         IF lookahead # 0 /\ lookahead # 10 THEN ADVANCE(247) ELSE  (* lookahead != 0 && lookahead != '\n' *)
         END_STATE)
    [] state = 234 ->
         ACCEPT_TOKEN(sym_annotation_text,
         IF lookahead = 116 THEN ADVANCE(181) ELSE  (* lookahead == 't' *)
         IF lookahead # 0 /\ lookahead # 10 THEN ADVANCE(247) ELSE  (* lookahead != 0 && lookahead != '\n' *)
         END_STATE)
    [] state = 235 ->
         ACCEPT_TOKEN(sym_annotation_text,
         IF lookahead = 116 THEN ADVANCE(142) ELSE  (* lookahead == 't' *)
         IF lookahead # 0 /\ lookahead # 10 THEN ADVANCE(247) ELSE  (* lookahead != 0 && lookahead != '\n' *)
         END_STATE)
    [] state = 236 ->
         ACCEPT_TOKEN(sym_annotation_text,
         IF lookahead = 116 THEN ADVANCE(157) ELSE  (* lookahead == 't' *)
         IF lookahead # 0 /\ lookahead # 10 THEN ADVANCE(247) ELSE  (* lookahead != 0 && lookahead != '\n' *)
         END_STATE)
    [] state = 237 ->
         ACCEPT_TOKEN(sym_annotation_text,
         IF lookahead = 116 THEN ADVANCE(160) ELSE  (* lookahead == 't' *)
         IF lookahead # 0 /\ lookahead # 10 THEN ADVANCE(247) ELSE  (* lookahead != 0 && lookahead != '\n' *)
         END_STATE)
    [] state = 238 ->
         ACCEPT_TOKEN(sym_annotation_text,
         IF lookahead = 117 THEN ADVANCE(212) ELSE  (* lookahead == 'u' *)
         IF lookahead # 0 /\ lookahead # 10 THEN ADVANCE(247) ELSE  (* lookahead != 0 && lookahead != '\n' *)
         END_STATE)
    [] state = 239 ->
         ACCEPT_TOKEN(sym_annotation_text,
         IF lookahead = 117 THEN ADVANCE(215) ELSE  (* lookahead == 'u' *)
         IF lookahead # 0 /\ lookahead # 10 THEN ADVANCE(247) ELSE  (* lookahead != 0 && lookahead != '\n' *)
         END_STATE)
    [] state = 240 ->
         ACCEPT_TOKEN(sym_annotation_text,
         IF lookahead = 117 THEN ADVANCE(205) ELSE  (* lookahead == 'u' *)
         IF lookahead # 0 /\ lookahead # 10 THEN ADVANCE(247) ELSE  (* lookahead != 0 && lookahead != '\n' *)
         END_STATE)
    [] state = 241 ->
         ACCEPT_TOKEN(sym_annotation_text,
         IF lookahead = 117 THEN ADVANCE(226) ELSE  (* lookahead == 'u' *)
         IF lookahead # 0 /\ lookahead # 10 THEN ADVANCE(247) ELSE  (* lookahead != 0 && lookahead != '\n' *)
         END_STATE)
    [] state = 242 ->
         ACCEPT_TOKEN(sym_annotation_text,
         IF lookahead = 119 THEN ADVANCE(315) ELSE  (* lookahead == 'w' *)
         IF lookahead # 0 /\ lookahead # 10 THEN ADVANCE(247) ELSE  (* lookahead != 0 && lookahead != '\n' *)
         END_STATE)
    [] state = 243 ->
         ACCEPT_TOKEN(sym_annotation_text,
         IF lookahead = 120 THEN ADVANCE(223) ELSE  (* lookahead == 'x' *)
         IF lookahead # 0 /\ lookahead # 10 THEN ADVANCE(247) ELSE  (* lookahead != 0 && lookahead != '\n' *)
         END_STATE)
    [] state = 244 ->
         ACCEPT_TOKEN(sym_annotation_text,
         IF lookahead = 121 THEN ADVANCE(300) ELSE  (* lookahead == 'y' *)
         IF lookahead # 0 /\ lookahead # 10 THEN ADVANCE(247) ELSE  (* lookahead != 0 && lookahead != '\n' *)
         END_STATE)
    [] state = 245 ->
         ACCEPT_TOKEN(sym_annotation_text,
         IF lookahead = 121 THEN ADVANCE(253) ELSE  (* lookahead == 'y' *)
         IF lookahead # 0 /\ lookahead # 10 THEN ADVANCE(247) ELSE  (* lookahead != 0 && lookahead != '\n' *)
         END_STATE)
    [] state = 246 ->
         ACCEPT_TOKEN(sym_annotation_text,
         IF lookahead = 121 THEN ADVANCE(202) ELSE  (* lookahead == 'y' *)
         IF lookahead # 0 /\ lookahead # 10 THEN ADVANCE(247) ELSE  (* lookahead != 0 && lookahead != '\n' *)
         END_STATE)

ts_lex_247(lookahead, eof) ==
  ACCEPT_TOKEN(sym_annotation_text,
  IF lookahead # 0 /\ lookahead # 10 THEN ADVANCE(247) ELSE  (* lookahead != 0 && lookahead != '\n' *)
  END_STATE)

ts_lex_248_287(state, lookahead, eof) ==
  CASE state = 248 ->
         ACCEPT_TOKEN(anon_sym_accept,
         IF (48 <= lookahead /\ lookahead <= 57) \/ (65 <= lookahead /\ lookahead <= 90) \/ lookahead = 95 \/ (97 <= lookahead /\ lookahead <= 122) THEN ADVANCE(469) ELSE  (* ('0' <= lookahead && lookahead <= '9') || ('A' <= lookahead && lookahead <= 'Z') || lookahead == '_' || ('a' <= lookahead && lookahead <= 'z') *)
         END_STATE)
    [] state = 249 ->
         ACCEPT_TOKEN(anon_sym_accept,
         IF lookahead # 0 /\ lookahead # 10 THEN ADVANCE(247) ELSE  (* lookahead != 0 && lookahead != '\n' *)
         END_STATE)
    [] state = 250 ->
         ACCEPT_TOKEN(anon_sym_status,
         IF (48 <= lookahead /\ lookahead <= 57) \/ (65 <= lookahead /\ lookahead <= 90) \/ lookahead = 95 \/ (97 <= lookahead /\ lookahead <= 122) THEN ADVANCE(469) ELSE  (* ('0' <= lookahead && lookahead <= '9') || ('A' <= lookahead && lookahead <= 'Z') || lookahead == '_' || ('a' <= lookahead && lookahead <= 'z') *)
         END_STATE)
    [] state = 251 ->
         ACCEPT_TOKEN(anon_sym_status,
         IF lookahead # 0 /\ lookahead # 10 THEN ADVANCE(247) ELSE  (* lookahead != 0 && lookahead != '\n' *)
         END_STATE)
    [] state = 252 ->
         ACCEPT_TOKEN(anon_sym_priority,
         IF (48 <= lookahead /\ lookahead <= 57) \/ (65 <= lookahead /\ lookahead <= 90) \/ lookahead = 95 \/ (97 <= lookahead /\ lookahead <= 122) THEN ADVANCE(469) ELSE  (* ('0' <= lookahead && lookahead <= '9') || ('A' <= lookahead && lookahead <= 'Z') || lookahead == '_' || ('a' <= lookahead && lookahead <= 'z') *)
         END_STATE)
    [] state = 253 ->
         ACCEPT_TOKEN(anon_sym_priority,
         IF lookahead # 0 /\ lookahead # 10 THEN ADVANCE(247) ELSE  (* lookahead != 0 && lookahead != '\n' *)
         END_STATE)
    [] state = 254 ->
         ACCEPT_TOKEN(anon_sym_tag,
         IF (48 <= lookahead /\ lookahead <= 57) \/ (65 <= lookahead /\ lookahead <= 90) \/ lookahead = 95 \/ (97 <= lookahead /\ lookahead <= 122) THEN ADVANCE(469) ELSE  (* ('0' <= lookahead && lookahead <= '9') || ('A' <= lookahead && lookahead <= 'Z') || lookahead == '_' || ('a' <= lookahead && lookahead <= 'z') *)
         END_STATE)
    [] state = 255 ->
         ACCEPT_TOKEN(anon_sym_tag,
         IF lookahead # 0 /\ lookahead # 10 THEN ADVANCE(247) ELSE  (* lookahead != 0 && lookahead != '\n' *)
         END_STATE)
    [] state = 256 ->
         ACCEPT_TOKEN(anon_sym_style,
         END_STATE)
    [] state = 257 ->
         ACCEPT_TOKEN(anon_sym_style,
         IF (48 <= lookahead /\ lookahead <= 57) \/ (65 <= lookahead /\ lookahead <= 90) \/ lookahead = 95 \/ (97 <= lookahead /\ lookahead <= 122) THEN ADVANCE(469) ELSE  (* ('0' <= lookahead && lookahead <= '9') || ('A' <= lookahead && lookahead <= 'Z') || lookahead == '_' || ('a' <= lookahead && lookahead <= 'z') *)
         END_STATE)
    [] state = 258 ->
         ACCEPT_TOKEN(anon_sym_style,
         IF lookahead # 0 /\ lookahead # 10 THEN ADVANCE(247) ELSE  (* lookahead != 0 && lookahead != '\n' *)
         END_STATE)
    [] state = 259 ->
         ACCEPT_TOKEN(anon_sym_LBRACE,
         END_STATE)
    [] state = 260 ->
         ACCEPT_TOKEN(anon_sym_RBRACE,
         END_STATE)
    [] state = 261 ->
         ACCEPT_TOKEN(anon_sym_RBRACE,
         IF lookahead # 0 /\ lookahead # 10 THEN ADVANCE(247) ELSE  (* lookahead != 0 && lookahead != '\n' *)
         END_STATE)
    [] state = 262 ->
         ACCEPT_TOKEN(anon_sym_group,
         END_STATE)
    [] state = 263 ->
         ACCEPT_TOKEN(anon_sym_group,
         IF (48 <= lookahead /\ lookahead <= 57) \/ (65 <= lookahead /\ lookahead <= 90) \/ lookahead = 95 \/ (97 <= lookahead /\ lookahead <= 122) THEN ADVANCE(469) ELSE  (* ('0' <= lookahead && lookahead <= '9') || ('A' <= lookahead && lookahead <= 'Z') || lookahead == '_' || ('a' <= lookahead && lookahead <= 'z') *)
         END_STATE)
    [] state = 264 ->
         ACCEPT_TOKEN(anon_sym_group,
         IF lookahead # 0 /\ lookahead # 10 THEN ADVANCE(247) ELSE  (* lookahead != 0 && lookahead != '\n' *)
         END_STATE)
    [] state = 265 ->
         ACCEPT_TOKEN(anon_sym_rect,
         END_STATE)
    [] state = 266 ->
         ACCEPT_TOKEN(anon_sym_rect,
         IF (48 <= lookahead /\ lookahead <= 57) \/ (65 <= lookahead /\ lookahead <= 90) \/ lookahead = 95 \/ (97 <= lookahead /\ lookahead <= 122) THEN ADVANCE(469) ELSE  (* ('0' <= lookahead && lookahead <= '9') || ('A' <= lookahead && lookahead <= 'Z') || lookahead == '_' || ('a' <= lookahead && lookahead <= 'z') *)
         END_STATE)
    [] state = 267 ->
         ACCEPT_TOKEN(anon_sym_rect,
         IF lookahead # 0 /\ lookahead # 10 THEN ADVANCE(247) ELSE  (* lookahead != 0 && lookahead != '\n' *)
         END_STATE)
    [] state = 268 ->
         ACCEPT_TOKEN(anon_sym_ellipse,
         END_STATE)
    [] state = 269 ->
         ACCEPT_TOKEN(anon_sym_ellipse,
         IF (48 <= lookahead /\ lookahead <= 57) \/ (65 <= lookahead /\ lookahead <= 90) \/ lookahead = 95 \/ (97 <= lookahead /\ lookahead <= 122) THEN ADVANCE(469) ELSE  (* ('0' <= lookahead && lookahead <= '9') || ('A' <= lookahead && lookahead <= 'Z') || lookahead == '_' || ('a' <= lookahead && lookahead <= 'z') *)
         END_STATE)
    [] state = 270 ->
         ACCEPT_TOKEN(anon_sym_ellipse,
         IF lookahead # 0 /\ lookahead # 10 THEN ADVANCE(247) ELSE  (* lookahead != 0 && lookahead != '\n' *)
         END_STATE)
    [] state = 271 ->
         ACCEPT_TOKEN(anon_sym_path,
         END_STATE)
    [] state = 272 ->
         ACCEPT_TOKEN(anon_sym_path,
         IF (48 <= lookahead /\ lookahead <= 57) \/ (65 <= lookahead /\ lookahead <= 90) \/ lookahead = 95 \/ (97 <= lookahead /\ lookahead <= 122) THEN ADVANCE(469) ELSE  (* ('0' <= lookahead && lookahead <= '9') || ('A' <= lookahead && lookahead <= 'Z') || lookahead == '_' || ('a' <= lookahead && lookahead <= 'z') *)
         END_STATE)
    [] state = 273 ->
         ACCEPT_TOKEN(anon_sym_path,
         IF lookahead # 0 /\ lookahead # 10 THEN ADVANCE(247) ELSE  (* lookahead != 0 && lookahead != '\n' *)
         END_STATE)
    [] state = 274 ->
         ACCEPT_TOKEN(anon_sym_text,
         END_STATE)
    [] state = 275 ->
         ACCEPT_TOKEN(anon_sym_text,
         IF (48 <= lookahead /\ lookahead <= 57) \/ (65 <= lookahead /\ lookahead <= 90) \/ lookahead = 95 \/ (97 <= lookahead /\ lookahead <= 122) THEN ADVANCE(469) ELSE  (* ('0' <= lookahead && lookahead <= '9') || ('A' <= lookahead && lookahead <= 'Z') || lookahead == '_' || ('a' <= lookahead && lookahead <= 'z') *)
         END_STATE)
    [] state = 276 ->
         ACCEPT_TOKEN(anon_sym_text,
         IF lookahead # 0 /\ lookahead # 10 THEN ADVANCE(247) ELSE  (* lookahead != 0 && lookahead != '\n' *)
         END_STATE)
    [] state = 277 ->
         ACCEPT_TOKEN(anon_sym_w,
         IF lookahead = 105 THEN ADVANCE(366) ELSE  (* lookahead == 'i' *)
         IF (48 <= lookahead /\ lookahead <= 57) \/ (65 <= lookahead /\ lookahead <= 90) \/ lookahead = 95 \/ (97 <= lookahead /\ lookahead <= 122) THEN ADVANCE(469) ELSE  (* ('0' <= lookahead && lookahead <= '9') || ('A' <= lookahead && lookahead <= 'Z') || lookahead == '_' || ('a' <= lookahead && lookahead <= 'z') *)
         END_STATE)
    [] state = 278 ->
         ACCEPT_TOKEN(anon_sym_w,
         IF lookahead = 105 THEN ADVANCE(26) ELSE  (* lookahead == 'i' *)
         END_STATE)
    [] state = 279 ->
         ACCEPT_TOKEN(anon_sym_w,
         IF lookahead = 105 THEN ADVANCE(151) ELSE  (* lookahead == 'i' *)
         IF lookahead # 0 /\ lookahead # 10 THEN ADVANCE(247) ELSE  (* lookahead != 0 && lookahead != '\n' *)
         END_STATE)
    [] state = 280 ->
         ACCEPT_TOKEN(anon_sym_h,
         IF lookahead = 101 THEN ADVANCE(396) ELSE  (* lookahead == 'e' *)
         IF (48 <= lookahead /\ lookahead <= 57) \/ (65 <= lookahead /\ lookahead <= 90) \/ lookahead = 95 \/ (97 <= lookahead /\ lookahead <= 122) THEN ADVANCE(469) ELSE  (* ('0' <= lookahead && lookahead <= '9') || ('A' <= lookahead && lookahead <= 'Z') || lookahead == '_' || ('a' <= lookahead && lookahead <= 'z') *)
         END_STATE)
    [] state = 281 ->
         ACCEPT_TOKEN(anon_sym_h,
         IF lookahead = 101 THEN ADVANCE(50) ELSE  (* lookahead == 'e' *)
         END_STATE)
    [] state = 282 ->
         ACCEPT_TOKEN(anon_sym_h,
         IF lookahead = 101 THEN ADVANCE(179) ELSE  (* lookahead == 'e' *)
         IF lookahead # 0 /\ lookahead # 10 THEN ADVANCE(247) ELSE  (* lookahead != 0 && lookahead != '\n' *)
         END_STATE)
    [] state = 283 ->
         ACCEPT_TOKEN(anon_sym_width,
         END_STATE)
    [] state = 284 ->
         ACCEPT_TOKEN(anon_sym_width,
         IF (48 <= lookahead /\ lookahead <= 57) \/ (65 <= lookahead /\ lookahead <= 90) \/ lookahead = 95 \/ (97 <= lookahead /\ lookahead <= 122) THEN ADVANCE(469) ELSE  (* ('0' <= lookahead && lookahead <= '9') || ('A' <= lookahead && lookahead <= 'Z') || lookahead == '_' || ('a' <= lookahead && lookahead <= 'z') *)
         END_STATE)
    [] state = 285 ->
         ACCEPT_TOKEN(anon_sym_width,
         IF lookahead # 0 /\ lookahead # 10 THEN ADVANCE(247) ELSE  (* lookahead != 0 && lookahead != '\n' *)
         END_STATE)
    [] state = 286 ->
         ACCEPT_TOKEN(anon_sym_height,
         END_STATE)
    [] state = 287 ->
         ACCEPT_TOKEN(anon_sym_height,
         IF (48 <= lookahead /\ lookahead <= 57) \/ (65 <= lookahead /\ lookahead <= 90) \/ lookahead = 95 \/ (97 <= lookahead /\ lookahead <= 122) THEN ADVANCE(469) ELSE  (* ('0' <= lookahead && lookahead <= '9') || ('A' <= lookahead && lookahead <= 'Z') || lookahead == '_' || ('a' <= lookahead && lookahead <= 'z') *)
         END_STATE)

ts_lex_288_327(state, lookahead, eof) ==
  CASE state = 288 ->
         ACCEPT_TOKEN(anon_sym_height,
         IF lookahead # 0 /\ lookahead # 10 THEN ADVANCE(247) ELSE  (* lookahead != 0 && lookahead != '\n' *)
         END_STATE)
    [] state = 289 ->
         ACCEPT_TOKEN(anon_sym_fill,
         END_STATE)
    [] state = 290 ->
         ACCEPT_TOKEN(anon_sym_fill,
         IF (48 <= lookahead /\ lookahead <= 57) \/ (65 <= lookahead /\ lookahead <= 90) \/ lookahead = 95 \/ (97 <= lookahead /\ lookahead <= 122) THEN ADVANCE(469) ELSE  (* ('0' <= lookahead && lookahead <= '9') || ('A' <= lookahead && lookahead <= 'Z') || lookahead == '_' || ('a' <= lookahead && lookahead <= 'z') *)
         END_STATE)
    [] state = 291 ->
         ACCEPT_TOKEN(anon_sym_fill,
         IF lookahead # 0 /\ lookahead # 10 THEN ADVANCE(247) ELSE  (* lookahead != 0 && lookahead != '\n' *)
         END_STATE)
    [] state = 292 ->
         ACCEPT_TOKEN(anon_sym_stroke,
         END_STATE)
    [] state = 293 ->
         ACCEPT_TOKEN(anon_sym_stroke,
         IF (48 <= lookahead /\ lookahead <= 57) \/ (65 <= lookahead /\ lookahead <= 90) \/ lookahead = 95 \/ (97 <= lookahead /\ lookahead <= 122) THEN ADVANCE(469) ELSE  (* ('0' <= lookahead && lookahead <= '9') || ('A' <= lookahead && lookahead <= 'Z') || lookahead == '_' || ('a' <= lookahead && lookahead <= 'z') *)
         END_STATE)
    [] state = 294 ->
         ACCEPT_TOKEN(anon_sym_stroke,
         IF lookahead # 0 /\ lookahead # 10 THEN ADVANCE(247) ELSE  (* lookahead != 0 && lookahead != '\n' *)
         END_STATE)
    [] state = 295 ->
         ACCEPT_TOKEN(anon_sym_corner,
         END_STATE)
    [] state = 296 ->
         ACCEPT_TOKEN(anon_sym_corner,
         IF (48 <= lookahead /\ lookahead <= 57) \/ (65 <= lookahead /\ lookahead <= 90) \/ lookahead = 95 \/ (97 <= lookahead /\ lookahead <= 122) THEN ADVANCE(469) ELSE  (* ('0' <= lookahead && lookahead <= '9') || ('A' <= lookahead && lookahead <= 'Z') || lookahead == '_' || ('a' <= lookahead && lookahead <= 'z') *)
         END_STATE)
    [] state = 297 ->
         ACCEPT_TOKEN(anon_sym_corner,
         IF lookahead # 0 /\ lookahead # 10 THEN ADVANCE(247) ELSE  (* lookahead != 0 && lookahead != '\n' *)
         END_STATE)
    [] state = 298 ->
         ACCEPT_TOKEN(anon_sym_opacity,
         END_STATE)
    [] state = 299 ->
         ACCEPT_TOKEN(anon_sym_opacity,
         IF (48 <= lookahead /\ lookahead <= 57) \/ (65 <= lookahead /\ lookahead <= 90) \/ lookahead = 95 \/ (97 <= lookahead /\ lookahead <= 122) THEN ADVANCE(469) ELSE  (* ('0' <= lookahead && lookahead <= '9') || ('A' <= lookahead && lookahead <= 'Z') || lookahead == '_' || ('a' <= lookahead && lookahead <= 'z') *)
         END_STATE)
    [] state = 300 ->
         ACCEPT_TOKEN(anon_sym_opacity,
         IF lookahead # 0 /\ lookahead # 10 THEN ADVANCE(247) ELSE  (* lookahead != 0 && lookahead != '\n' *)
         END_STATE)
    [] state = 301 ->
         ACCEPT_TOKEN(anon_sym_font,
         END_STATE)
    [] state = 302 ->
         ACCEPT_TOKEN(anon_sym_font,
         IF (48 <= lookahead /\ lookahead <= 57) \/ (65 <= lookahead /\ lookahead <= 90) \/ lookahead = 95 \/ (97 <= lookahead /\ lookahead <= 122) THEN ADVANCE(469) ELSE  (* ('0' <= lookahead && lookahead <= '9') || ('A' <= lookahead && lookahead <= 'Z') || lookahead == '_' || ('a' <= lookahead && lookahead <= 'z') *)
         END_STATE)
    [] state = 303 ->
         ACCEPT_TOKEN(anon_sym_font,
         IF lookahead # 0 /\ lookahead # 10 THEN ADVANCE(247) ELSE  (* lookahead != 0 && lookahead != '\n' *)
         END_STATE)
    [] state = 304 ->
         ACCEPT_TOKEN(anon_sym_bg,
         END_STATE)
    [] state = 305 ->
         ACCEPT_TOKEN(anon_sym_bg,
         IF (48 <= lookahead /\ lookahead <= 57) \/ (65 <= lookahead /\ lookahead <= 90) \/ lookahead = 95 \/ (97 <= lookahead /\ lookahead <= 122) THEN ADVANCE(469) ELSE  (* ('0' <= lookahead && lookahead <= '9') || ('A' <= lookahead && lookahead <= 'Z') || lookahead == '_' || ('a' <= lookahead && lookahead <= 'z') *)
         END_STATE)
    [] state = 306 ->
         ACCEPT_TOKEN(anon_sym_bg,
         IF lookahead # 0 /\ lookahead # 10 THEN ADVANCE(247) ELSE  (* lookahead != 0 && lookahead != '\n' *)
         END_STATE)
    [] state = 307 ->
         ACCEPT_TOKEN(anon_sym_use,
         END_STATE)
    [] state = 308 ->
         ACCEPT_TOKEN(anon_sym_use,
         IF (48 <= lookahead /\ lookahead <= 57) \/ (65 <= lookahead /\ lookahead <= 90) \/ lookahead = 95 \/ (97 <= lookahead /\ lookahead <= 122) THEN ADVANCE(469) ELSE  (* ('0' <= lookahead && lookahead <= '9') || ('A' <= lookahead && lookahead <= 'Z') || lookahead == '_' || ('a' <= lookahead && lookahead <= 'z') *)
         END_STATE)
    [] state = 309 ->
         ACCEPT_TOKEN(anon_sym_use,
         IF lookahead # 0 /\ lookahead # 10 THEN ADVANCE(247) ELSE  (* lookahead != 0 && lookahead != '\n' *)
         END_STATE)
    [] state = 310 ->
         ACCEPT_TOKEN(anon_sym_layout,
         END_STATE)
    [] state = 311 ->
         ACCEPT_TOKEN(anon_sym_layout,
         IF (48 <= lookahead /\ lookahead <= 57) \/ (65 <= lookahead /\ lookahead <= 90) \/ lookahead = 95 \/ (97 <= lookahead /\ lookahead <= 122) THEN ADVANCE(469) ELSE  (* ('0' <= lookahead && lookahead <= '9') || ('A' <= lookahead && lookahead <= 'Z') || lookahead == '_' || ('a' <= lookahead && lookahead <= 'z') *)
         END_STATE)
    [] state = 312 ->
         ACCEPT_TOKEN(anon_sym_layout,
         IF lookahead # 0 /\ lookahead # 10 THEN ADVANCE(247) ELSE  (* lookahead != 0 && lookahead != '\n' *)
         END_STATE)
    [] state = 313 ->
         ACCEPT_TOKEN(anon_sym_shadow,
         END_STATE)
    [] state = 314 ->
         ACCEPT_TOKEN(anon_sym_shadow,
         IF (48 <= lookahead /\ lookahead <= 57) \/ (65 <= lookahead /\ lookahead <= 90) \/ lookahead = 95 \/ (97 <= lookahead /\ lookahead <= 122) THEN ADVANCE(469) ELSE  (* ('0' <= lookahead && lookahead <= '9') || ('A' <= lookahead && lookahead <= 'Z') || lookahead == '_' || ('a' <= lookahead && lookahead <= 'z') *)
         END_STATE)
    [] state = 315 ->
         ACCEPT_TOKEN(anon_sym_shadow,
         IF lookahead # 0 /\ lookahead # 10 THEN ADVANCE(247) ELSE  (* lookahead != 0 && lookahead != '\n' *)
         END_STATE)
    [] state = 316 ->
         ACCEPT_TOKEN(anon_sym_scale,
         END_STATE)
    [] state = 317 ->
         ACCEPT_TOKEN(anon_sym_scale,
         IF (48 <= lookahead /\ lookahead <= 57) \/ (65 <= lookahead /\ lookahead <= 90) \/ lookahead = 95 \/ (97 <= lookahead /\ lookahead <= 122) THEN ADVANCE(469) ELSE  (* ('0' <= lookahead && lookahead <= '9') || ('A' <= lookahead && lookahead <= 'Z') || lookahead == '_' || ('a' <= lookahead && lookahead <= 'z') *)
         END_STATE)
    [] state = 318 ->
         ACCEPT_TOKEN(anon_sym_scale,
         IF lookahead # 0 /\ lookahead # 10 THEN ADVANCE(247) ELSE  (* lookahead != 0 && lookahead != '\n' *)
         END_STATE)
    [] state = 319 ->
         ACCEPT_TOKEN(anon_sym_rotate,
         END_STATE)
    [] state = 320 ->
         ACCEPT_TOKEN(anon_sym_rotate,
         IF (48 <= lookahead /\ lookahead <= 57) \/ (65 <= lookahead /\ lookahead <= 90) \/ lookahead = 95 \/ (97 <= lookahead /\ lookahead <= 122) THEN ADVANCE(469) ELSE  (* ('0' <= lookahead && lookahead <= '9') || ('A' <= lookahead && lookahead <= 'Z') || lookahead == '_' || ('a' <= lookahead && lookahead <= 'z') *)
         END_STATE)
    [] state = 321 ->
         ACCEPT_TOKEN(anon_sym_rotate,
         IF lookahead # 0 /\ lookahead # 10 THEN ADVANCE(247) ELSE  (* lookahead != 0 && lookahead != '\n' *)
         END_STATE)
    [] state = 322 ->
         ACCEPT_TOKEN(anon_sym_translate,
         END_STATE)
    [] state = 323 ->
         ACCEPT_TOKEN(anon_sym_translate,
         IF (48 <= lookahead /\ lookahead <= 57) \/ (65 <= lookahead /\ lookahead <= 90) \/ lookahead = 95 \/ (97 <= lookahead /\ lookahead <= 122) THEN ADVANCE(469) ELSE  (* ('0' <= lookahead && lookahead <= '9') || ('A' <= lookahead && lookahead <= 'Z') || lookahead == '_' || ('a' <= lookahead && lookahead <= 'z') *)
         END_STATE)
    [] state = 324 ->
         ACCEPT_TOKEN(anon_sym_translate,
         IF lookahead # 0 /\ lookahead # 10 THEN ADVANCE(247) ELSE  (* lookahead != 0 && lookahead != '\n' *)
         END_STATE)
    [] state = 325 ->
         ACCEPT_TOKEN(anon_sym_center_in,
         END_STATE)
    [] state = 326 ->
         ACCEPT_TOKEN(anon_sym_center_in,
         IF (48 <= lookahead /\ lookahead <= 57) \/ (65 <= lookahead /\ lookahead <= 90) \/ lookahead = 95 \/ (97 <= lookahead /\ lookahead <= 122) THEN ADVANCE(469) ELSE  (* ('0' <= lookahead && lookahead <= '9') || ('A' <= lookahead && lookahead <= 'Z') || lookahead == '_' || ('a' <= lookahead && lookahead <= 'z') *)
         END_STATE)
    [] state = 327 ->
         ACCEPT_TOKEN(anon_sym_center_in,
         IF lookahead # 0 /\ lookahead # 10 THEN ADVANCE(247) ELSE  (* lookahead != 0 && lookahead != '\n' *)
         END_STATE)

ts_lex_328_367(state, lookahead, eof) ==
  CASE state = 328 ->
         ACCEPT_TOKEN(anon_sym_offset,
         END_STATE)
    [] state = 329 ->
         ACCEPT_TOKEN(anon_sym_offset,
         IF (48 <= lookahead /\ lookahead <= 57) \/ (65 <= lookahead /\ lookahead <= 90) \/ lookahead = 95 \/ (97 <= lookahead /\ lookahead <= 122) THEN ADVANCE(469) ELSE  (* ('0' <= lookahead && lookahead <= '9') || ('A' <= lookahead && lookahead <= 'Z') || lookahead == '_' || ('a' <= lookahead && lookahead <= 'z') *)
         END_STATE)
    [] state = 330 ->
         ACCEPT_TOKEN(anon_sym_offset,
         IF lookahead # 0 /\ lookahead # 10 THEN ADVANCE(247) ELSE  (* lookahead != 0 && lookahead != '\n' *)
         END_STATE)
    [] state = 331 ->
         ACCEPT_TOKEN(anon_sym_ease,
         END_STATE)
    [] state = 332 ->
         ACCEPT_TOKEN(anon_sym_ease,
         IF (48 <= lookahead /\ lookahead <= 57) \/ (65 <= lookahead /\ lookahead <= 90) \/ lookahead = 95 \/ (97 <= lookahead /\ lookahead <= 122) THEN ADVANCE(469) ELSE  (* ('0' <= lookahead && lookahead <= '9') || ('A' <= lookahead && lookahead <= 'Z') || lookahead == '_' || ('a' <= lookahead && lookahead <= 'z') *)
         END_STATE)
    [] state = 333 ->
         ACCEPT_TOKEN(anon_sym_ease,
         IF lookahead # 0 /\ lookahead # 10 THEN ADVANCE(247) ELSE  (* lookahead != 0 && lookahead != '\n' *)
         END_STATE)
    [] state = 334 ->
         ACCEPT_TOKEN(anon_sym_duration,
         END_STATE)
    [] state = 335 ->
         ACCEPT_TOKEN(anon_sym_duration,
         IF (48 <= lookahead /\ lookahead <= 57) \/ (65 <= lookahead /\ lookahead <= 90) \/ lookahead = 95 \/ (97 <= lookahead /\ lookahead <= 122) THEN ADVANCE(469) ELSE  (* ('0' <= lookahead && lookahead <= '9') || ('A' <= lookahead && lookahead <= 'Z') || lookahead == '_' || ('a' <= lookahead && lookahead <= 'z') *)
         END_STATE)
    [] state = 336 ->
         ACCEPT_TOKEN(anon_sym_duration,
         IF lookahead # 0 /\ lookahead # 10 THEN ADVANCE(247) ELSE  (* lookahead != 0 && lookahead != '\n' *)
         END_STATE)
    [] state = 337 ->
         ACCEPT_TOKEN(anon_sym_EQ,
         END_STATE)
    [] state = 338 ->
         ACCEPT_TOKEN(anon_sym_anim,
         END_STATE)
    [] state = 339 ->
         ACCEPT_TOKEN(anon_sym_anim,
         IF (48 <= lookahead /\ lookahead <= 57) \/ (65 <= lookahead /\ lookahead <= 90) \/ lookahead = 95 \/ (97 <= lookahead /\ lookahead <= 122) THEN ADVANCE(469) ELSE  (* ('0' <= lookahead && lookahead <= '9') || ('A' <= lookahead && lookahead <= 'Z') || lookahead == '_' || ('a' <= lookahead && lookahead <= 'z') *)
         END_STATE)
    [] state = 340 ->
         ACCEPT_TOKEN(anon_sym_anim,
         IF lookahead # 0 /\ lookahead # 10 THEN ADVANCE(247) ELSE  (* lookahead != 0 && lookahead != '\n' *)
         END_STATE)
    [] state = 341 ->
         ACCEPT_TOKEN(anon_sym_DASH_GT,
         END_STATE)
    [] state = 342 ->
         ACCEPT_TOKEN(anon_sym_AT,
         END_STATE)
    [] state = 343 ->
         ACCEPT_TOKEN(anon_sym_AT,
         IF lookahead # 0 /\ lookahead # 10 THEN ADVANCE(247) ELSE  (* lookahead != 0 && lookahead != '\n' *)
         END_STATE)
    [] state = 344 ->
         ACCEPT_TOKEN(sym_identifier,
         IF lookahead = 95 THEN ADVANCE(397) ELSE  (* lookahead == '_' *)
         IF (48 <= lookahead /\ lookahead <= 57) \/ (65 <= lookahead /\ lookahead <= 90) \/ (97 <= lookahead /\ lookahead <= 122) THEN ADVANCE(469) ELSE  (* ('0' <= lookahead && lookahead <= '9') || ('A' <= lookahead && lookahead <= 'Z') || ('a' <= lookahead && lookahead <= 'z') *)
         END_STATE)
    [] state = 345 ->
         ACCEPT_TOKEN(sym_identifier,
         IF lookahead = 97 THEN ADVANCE(467) ELSE  (* lookahead == 'a' *)
         IF (48 <= lookahead /\ lookahead <= 57) \/ (65 <= lookahead /\ lookahead <= 90) \/ lookahead = 95 \/ (98 <= lookahead /\ lookahead <= 122) THEN ADVANCE(469) ELSE  (* ('0' <= lookahead && lookahead <= '9') || ('A' <= lookahead && lookahead <= 'Z') || lookahead == '_' || ('b' <= lookahead && lookahead <= 'z') *)
         END_STATE)
    [] state = 346 ->
         ACCEPT_TOKEN(sym_identifier,
         IF lookahead = 97 THEN ADVANCE(441) ELSE  (* lookahead == 'a' *)
         IF lookahead = 114 THEN ADVANCE(394) ELSE  (* lookahead == 'r' *)
         IF (48 <= lookahead /\ lookahead <= 57) \/ (65 <= lookahead /\ lookahead <= 90) \/ lookahead = 95 \/ (98 <= lookahead /\ lookahead <= 122) THEN ADVANCE(469) ELSE  (* ('0' <= lookahead && lookahead <= '9') || ('A' <= lookahead && lookahead <= 'Z') || lookahead == '_' || ('b' <= lookahead && lookahead <= 'z') *)
         END_STATE)
    [] state = 347 ->
         ACCEPT_TOKEN(sym_identifier,
         IF lookahead = 97 THEN ADVANCE(441) ELSE  (* lookahead == 'a' *)
         IF (48 <= lookahead /\ lookahead <= 57) \/ (65 <= lookahead /\ lookahead <= 90) \/ lookahead = 95 \/ (98 <= lookahead /\ lookahead <= 122) THEN ADVANCE(469) ELSE  (* ('0' <= lookahead && lookahead <= '9') || ('A' <= lookahead && lookahead <= 'Z') || lookahead == '_' || ('b' <= lookahead && lookahead <= 'z') *)
         END_STATE)
    [] state = 348 ->
         ACCEPT_TOKEN(sym_identifier,
         IF lookahead = 97 THEN ADVANCE(387) ELSE  (* lookahead == 'a' *)
         IF lookahead = 101 THEN ADVANCE(464) ELSE  (* lookahead == 'e' *)
         IF lookahead = 114 THEN ADVANCE(351) ELSE  (* lookahead == 'r' *)
         IF (48 <= lookahead /\ lookahead <= 57) \/ (65 <= lookahead /\ lookahead <= 90) \/ lookahead = 95 \/ (98 <= lookahead /\ lookahead <= 122) THEN ADVANCE(469) ELSE  (* ('0' <= lookahead && lookahead <= '9') || ('A' <= lookahead && lookahead <= 'Z') || lookahead == '_' || ('b' <= lookahead && lookahead <= 'z') *)
         END_STATE)
    [] state = 349 ->
         ACCEPT_TOKEN(sym_identifier,
         IF lookahead = 97 THEN ADVANCE(365) ELSE  (* lookahead == 'a' *)
         IF (48 <= lookahead /\ lookahead <= 57) \/ (65 <= lookahead /\ lookahead <= 90) \/ lookahead = 95 \/ (98 <= lookahead /\ lookahead <= 122) THEN ADVANCE(469) ELSE  (* ('0' <= lookahead && lookahead <= '9') || ('A' <= lookahead && lookahead <= 'Z') || lookahead == '_' || ('b' <= lookahead && lookahead <= 'z') *)
         END_STATE)
    [] state = 350 ->
         ACCEPT_TOKEN(sym_identifier,
         IF lookahead = 97 THEN ADVANCE(363) ELSE  (* lookahead == 'a' *)
         IF (48 <= lookahead /\ lookahead <= 57) \/ (65 <= lookahead /\ lookahead <= 90) \/ lookahead = 95 \/ (98 <= lookahead /\ lookahead <= 122) THEN ADVANCE(469) ELSE  (* ('0' <= lookahead && lookahead <= '9') || ('A' <= lookahead && lookahead <= 'Z') || lookahead == '_' || ('b' <= lookahead && lookahead <= 'z') *)
         END_STATE)
    [] state = 351 ->
         ACCEPT_TOKEN(sym_identifier,
         IF lookahead = 97 THEN ADVANCE(413) ELSE  (* lookahead == 'a' *)
         IF (48 <= lookahead /\ lookahead <= 57) \/ (65 <= lookahead /\ lookahead <= 90) \/ lookahead = 95 \/ (98 <= lookahead /\ lookahead <= 122) THEN ADVANCE(469) ELSE  (* ('0' <= lookahead && lookahead <= '9') || ('A' <= lookahead && lookahead <= 'Z') || lookahead == '_' || ('b' <= lookahead && lookahead <= 'z') *)
         END_STATE)
    [] state = 352 ->
         ACCEPT_TOKEN(sym_identifier,
         IF lookahead = 97 THEN ADVANCE(406) ELSE  (* lookahead == 'a' *)
         IF (48 <= lookahead /\ lookahead <= 57) \/ (65 <= lookahead /\ lookahead <= 90) \/ lookahead = 95 \/ (98 <= lookahead /\ lookahead <= 122) THEN ADVANCE(469) ELSE  (* ('0' <= lookahead && lookahead <= '9') || ('A' <= lookahead && lookahead <= 'Z') || lookahead == '_' || ('b' <= lookahead && lookahead <= 'z') *)
         END_STATE)
    [] state = 353 ->
         ACCEPT_TOKEN(sym_identifier,
         IF lookahead = 97 THEN ADVANCE(452) ELSE  (* lookahead == 'a' *)
         IF lookahead = 114 THEN ADVANCE(417) ELSE  (* lookahead == 'r' *)
         IF lookahead = 121 THEN ADVANCE(407) ELSE  (* lookahead == 'y' *)
         IF (48 <= lookahead /\ lookahead <= 57) \/ (65 <= lookahead /\ lookahead <= 90) \/ lookahead = 95 \/ (98 <= lookahead /\ lookahead <= 122) THEN ADVANCE(469) ELSE  (* ('0' <= lookahead && lookahead <= '9') || ('A' <= lookahead && lookahead <= 'Z') || lookahead == '_' || ('b' <= lookahead && lookahead <= 'z') *)
         END_STATE)
    [] state = 354 ->
         ACCEPT_TOKEN(sym_identifier,
         IF lookahead = 97 THEN ADVANCE(455) ELSE  (* lookahead == 'a' *)
         IF (48 <= lookahead /\ lookahead <= 57) \/ (65 <= lookahead /\ lookahead <= 90) \/ lookahead = 95 \/ (98 <= lookahead /\ lookahead <= 122) THEN ADVANCE(469) ELSE  (* ('0' <= lookahead && lookahead <= '9') || ('A' <= lookahead && lookahead <= 'Z') || lookahead == '_' || ('b' <= lookahead && lookahead <= 'z') *)
         END_STATE)
    [] state = 355 ->
         ACCEPT_TOKEN(sym_identifier,
         IF lookahead = 97 THEN ADVANCE(437) ELSE  (* lookahead == 'a' *)
         IF lookahead = 108 THEN ADVANCE(405) ELSE  (* lookahead == 'l' *)
         IF (48 <= lookahead /\ lookahead <= 57) \/ (65 <= lookahead /\ lookahead <= 90) \/ lookahead = 95 \/ (98 <= lookahead /\ lookahead <= 122) THEN ADVANCE(469) ELSE  (* ('0' <= lookahead && lookahead <= '9') || ('A' <= lookahead && lookahead <= 'Z') || lookahead == '_' || ('b' <= lookahead && lookahead <= 'z') *)
         END_STATE)
    [] state = 356 ->
         ACCEPT_TOKEN(sym_identifier,
         IF lookahead = 97 THEN ADVANCE(437) ELSE  (* lookahead == 'a' *)
         IF (48 <= lookahead /\ lookahead <= 57) \/ (65 <= lookahead /\ lookahead <= 90) \/ lookahead = 95 \/ (98 <= lookahead /\ lookahead <= 122) THEN ADVANCE(469) ELSE  (* ('0' <= lookahead && lookahead <= '9') || ('A' <= lookahead && lookahead <= 'Z') || lookahead == '_' || ('b' <= lookahead && lookahead <= 'z') *)
         END_STATE)
    [] state = 357 ->
         ACCEPT_TOKEN(sym_identifier,
         IF lookahead = 97 THEN ADVANCE(457) ELSE  (* lookahead == 'a' *)
         IF (48 <= lookahead /\ lookahead <= 57) \/ (65 <= lookahead /\ lookahead <= 90) \/ lookahead = 95 \/ (98 <= lookahead /\ lookahead <= 122) THEN ADVANCE(469) ELSE  (* ('0' <= lookahead && lookahead <= '9') || ('A' <= lookahead && lookahead <= 'Z') || lookahead == '_' || ('b' <= lookahead && lookahead <= 'z') *)
         END_STATE)
    [] state = 358 ->
         ACCEPT_TOKEN(sym_identifier,
         IF lookahead = 97 THEN ADVANCE(458) ELSE  (* lookahead == 'a' *)
         IF (48 <= lookahead /\ lookahead <= 57) \/ (65 <= lookahead /\ lookahead <= 90) \/ lookahead = 95 \/ (98 <= lookahead /\ lookahead <= 122) THEN ADVANCE(469) ELSE  (* ('0' <= lookahead && lookahead <= '9') || ('A' <= lookahead && lookahead <= 'Z') || lookahead == '_' || ('b' <= lookahead && lookahead <= 'z') *)
         END_STATE)
    [] state = 359 ->
         ACCEPT_TOKEN(sym_identifier,
         IF lookahead = 99 THEN ADVANCE(360) ELSE  (* lookahead == 'c' *)
         IF lookahead = 110 THEN ADVANCE(392) ELSE  (* lookahead == 'n' *)
         IF (48 <= lookahead /\ lookahead <= 57) \/ (65 <= lookahead /\ lookahead <= 90) \/ lookahead = 95 \/ (97 <= lookahead /\ lookahead <= 122) THEN ADVANCE(469) ELSE  (* ('0' <= lookahead && lookahead <= '9') || ('A' <= lookahead && lookahead <= 'Z') || lookahead == '_' || ('a' <= lookahead && lookahead <= 'z') *)
         END_STATE)
    [] state = 360 ->
         ACCEPT_TOKEN(sym_identifier,
         IF lookahead = 99 THEN ADVANCE(371) ELSE  (* lookahead == 'c' *)
         IF (48 <= lookahead /\ lookahead <= 57) \/ (65 <= lookahead /\ lookahead <= 90) \/ lookahead = 95 \/ (97 <= lookahead /\ lookahead <= 122) THEN ADVANCE(469) ELSE  (* ('0' <= lookahead && lookahead <= '9') || ('A' <= lookahead && lookahead <= 'Z') || lookahead == '_' || ('a' <= lookahead && lookahead <= 'z') *)
         END_STATE)
    [] state = 361 ->
         ACCEPT_TOKEN(sym_identifier,
         IF lookahead = 99 THEN ADVANCE(352) ELSE  (* lookahead == 'c' *)
         IF lookahead = 104 THEN ADVANCE(349) ELSE  (* lookahead == 'h' *)
         IF lookahead = 116 THEN ADVANCE(353) ELSE  (* lookahead == 't' *)
         IF (48 <= lookahead /\ lookahead <= 57) \/ (65 <= lookahead /\ lookahead <= 90) \/ lookahead = 95 \/ (97 <= lookahead /\ lookahead <= 122) THEN ADVANCE(469) ELSE  (* ('0' <= lookahead && lookahead <= '9') || ('A' <= lookahead && lookahead <= 'Z') || lookahead == '_' || ('a' <= lookahead && lookahead <= 'z') *)
         END_STATE)
    [] state = 362 ->
         ACCEPT_TOKEN(sym_identifier,
         IF lookahead = 99 THEN ADVANCE(352) ELSE  (* lookahead == 'c' *)
         IF lookahead = 104 THEN ADVANCE(349) ELSE  (* lookahead == 'h' *)
         IF lookahead = 116 THEN ADVANCE(431) ELSE  (* lookahead == 't' *)
         IF (48 <= lookahead /\ lookahead <= 57) \/ (65 <= lookahead /\ lookahead <= 90) \/ lookahead = 95 \/ (97 <= lookahead /\ lookahead <= 122) THEN ADVANCE(469) ELSE  (* ('0' <= lookahead && lookahead <= '9') || ('A' <= lookahead && lookahead <= 'Z') || lookahead == '_' || ('a' <= lookahead && lookahead <= 'z') *)
         END_STATE)
    [] state = 363 ->
         ACCEPT_TOKEN(sym_identifier,
         IF lookahead = 99 THEN ADVANCE(399) ELSE  (* lookahead == 'c' *)
         IF (48 <= lookahead /\ lookahead <= 57) \/ (65 <= lookahead /\ lookahead <= 90) \/ lookahead = 95 \/ (97 <= lookahead /\ lookahead <= 122) THEN ADVANCE(469) ELSE  (* ('0' <= lookahead && lookahead <= '9') || ('A' <= lookahead && lookahead <= 'Z') || lookahead == '_' || ('a' <= lookahead && lookahead <= 'z') *)
         END_STATE)
    [] state = 364 ->
         ACCEPT_TOKEN(sym_identifier,
         IF lookahead = 99 THEN ADVANCE(443) ELSE  (* lookahead == 'c' *)
         IF (48 <= lookahead /\ lookahead <= 57) \/ (65 <= lookahead /\ lookahead <= 90) \/ lookahead = 95 \/ (97 <= lookahead /\ lookahead <= 122) THEN ADVANCE(469) ELSE  (* ('0' <= lookahead && lookahead <= '9') || ('A' <= lookahead && lookahead <= 'Z') || lookahead == '_' || ('a' <= lookahead && lookahead <= 'z') *)
         END_STATE)
    [] state = 365 ->
         ACCEPT_TOKEN(sym_identifier,
         IF lookahead = 100 THEN ADVANCE(418) ELSE  (* lookahead == 'd' *)
         IF (48 <= lookahead /\ lookahead <= 57) \/ (65 <= lookahead /\ lookahead <= 90) \/ lookahead = 95 \/ (97 <= lookahead /\ lookahead <= 122) THEN ADVANCE(469) ELSE  (* ('0' <= lookahead && lookahead <= '9') || ('A' <= lookahead && lookahead <= 'Z') || lookahead == '_' || ('a' <= lookahead && lookahead <= 'z') *)
         END_STATE)
    [] state = 366 ->
         ACCEPT_TOKEN(sym_identifier,
         IF lookahead = 100 THEN ADVANCE(451) ELSE  (* lookahead == 'd' *)
         IF (48 <= lookahead /\ lookahead <= 57) \/ (65 <= lookahead /\ lookahead <= 90) \/ lookahead = 95 \/ (97 <= lookahead /\ lookahead <= 122) THEN ADVANCE(469) ELSE  (* ('0' <= lookahead && lookahead <= '9') || ('A' <= lookahead && lookahead <= 'Z') || lookahead == '_' || ('a' <= lookahead && lookahead <= 'z') *)
         END_STATE)
    [] state = 367 ->
         ACCEPT_TOKEN(sym_identifier,
         IF lookahead = 101 THEN ADVANCE(414) ELSE  (* lookahead == 'e' *)
         IF lookahead = 111 THEN ADVANCE(430) ELSE  (* lookahead == 'o' *)
         IF (48 <= lookahead /\ lookahead <= 57) \/ (65 <= lookahead /\ lookahead <= 90) \/ lookahead = 95 \/ (97 <= lookahead /\ lookahead <= 122) THEN ADVANCE(469) ELSE  (* ('0' <= lookahead && lookahead <= '9') || ('A' <= lookahead && lookahead <= 'Z') || lookahead == '_' || ('a' <= lookahead && lookahead <= 'z') *)
         END_STATE)

ts_lex_368_407(state, lookahead, eof) ==
  CASE state = 368 ->
         ACCEPT_TOKEN(sym_identifier,
         IF lookahead = 101 THEN ADVANCE(464) ELSE  (* lookahead == 'e' *)
         IF lookahead = 114 THEN ADVANCE(351) ELSE  (* lookahead == 'r' *)
         IF (48 <= lookahead /\ lookahead <= 57) \/ (65 <= lookahead /\ lookahead <= 90) \/ lookahead = 95 \/ (97 <= lookahead /\ lookahead <= 122) THEN ADVANCE(469) ELSE  (* ('0' <= lookahead && lookahead <= '9') || ('A' <= lookahead && lookahead <= 'Z') || lookahead == '_' || ('a' <= lookahead && lookahead <= 'z') *)
         END_STATE)
    [] state = 369 ->
         ACCEPT_TOKEN(sym_identifier,
         IF lookahead = 101 THEN ADVANCE(464) ELSE  (* lookahead == 'e' *)
         IF (48 <= lookahead /\ lookahead <= 57) \/ (65 <= lookahead /\ lookahead <= 90) \/ lookahead = 95 \/ (97 <= lookahead /\ lookahead <= 122) THEN ADVANCE(469) ELSE  (* ('0' <= lookahead && lookahead <= '9') || ('A' <= lookahead && lookahead <= 'Z') || lookahead == '_' || ('a' <= lookahead && lookahead <= 'z') *)
         END_STATE)
    [] state = 370 ->
         ACCEPT_TOKEN(sym_identifier,
         IF lookahead = 101 THEN ADVANCE(308) ELSE  (* lookahead == 'e' *)
         IF (48 <= lookahead /\ lookahead <= 57) \/ (65 <= lookahead /\ lookahead <= 90) \/ lookahead = 95 \/ (97 <= lookahead /\ lookahead <= 122) THEN ADVANCE(469) ELSE  (* ('0' <= lookahead && lookahead <= '9') || ('A' <= lookahead && lookahead <= 'Z') || lookahead == '_' || ('a' <= lookahead && lookahead <= 'z') *)
         END_STATE)
    [] state = 371 ->
         ACCEPT_TOKEN(sym_identifier,
         IF lookahead = 101 THEN ADVANCE(425) ELSE  (* lookahead == 'e' *)
         IF (48 <= lookahead /\ lookahead <= 57) \/ (65 <= lookahead /\ lookahead <= 90) \/ lookahead = 95 \/ (97 <= lookahead /\ lookahead <= 122) THEN ADVANCE(469) ELSE  (* ('0' <= lookahead && lookahead <= '9') || ('A' <= lookahead && lookahead <= 'Z') || lookahead == '_' || ('a' <= lookahead && lookahead <= 'z') *)
         END_STATE)
    [] state = 372 ->
         ACCEPT_TOKEN(sym_identifier,
         IF lookahead = 101 THEN ADVANCE(332) ELSE  (* lookahead == 'e' *)
         IF (48 <= lookahead /\ lookahead <= 57) \/ (65 <= lookahead /\ lookahead <= 90) \/ lookahead = 95 \/ (97 <= lookahead /\ lookahead <= 122) THEN ADVANCE(469) ELSE  (* ('0' <= lookahead && lookahead <= '9') || ('A' <= lookahead && lookahead <= 'Z') || lookahead == '_' || ('a' <= lookahead && lookahead <= 'z') *)
         END_STATE)
    [] state = 373 ->
         ACCEPT_TOKEN(sym_identifier,
         IF lookahead = 101 THEN ADVANCE(317) ELSE  (* lookahead == 'e' *)
         IF (48 <= lookahead /\ lookahead <= 57) \/ (65 <= lookahead /\ lookahead <= 90) \/ lookahead = 95 \/ (97 <= lookahead /\ lookahead <= 122) THEN ADVANCE(469) ELSE  (* ('0' <= lookahead && lookahead <= '9') || ('A' <= lookahead && lookahead <= 'Z') || lookahead == '_' || ('a' <= lookahead && lookahead <= 'z') *)
         END_STATE)
    [] state = 374 ->
         ACCEPT_TOKEN(sym_identifier,
         IF lookahead = 101 THEN ADVANCE(257) ELSE  (* lookahead == 'e' *)
         IF (48 <= lookahead /\ lookahead <= 57) \/ (65 <= lookahead /\ lookahead <= 90) \/ lookahead = 95 \/ (97 <= lookahead /\ lookahead <= 122) THEN ADVANCE(469) ELSE  (* ('0' <= lookahead && lookahead <= '9') || ('A' <= lookahead && lookahead <= 'Z') || lookahead == '_' || ('a' <= lookahead && lookahead <= 'z') *)
         END_STATE)
    [] state = 375 ->
         ACCEPT_TOKEN(sym_identifier,
         IF lookahead = 101 THEN ADVANCE(320) ELSE  (* lookahead == 'e' *)
         IF (48 <= lookahead /\ lookahead <= 57) \/ (65 <= lookahead /\ lookahead <= 90) \/ lookahead = 95 \/ (97 <= lookahead /\ lookahead <= 122) THEN ADVANCE(469) ELSE  (* ('0' <= lookahead && lookahead <= '9') || ('A' <= lookahead && lookahead <= 'Z') || lookahead == '_' || ('a' <= lookahead && lookahead <= 'z') *)
         END_STATE)
    [] state = 376 ->
         ACCEPT_TOKEN(sym_identifier,
         IF lookahead = 101 THEN ADVANCE(293) ELSE  (* lookahead == 'e' *)
         IF (48 <= lookahead /\ lookahead <= 57) \/ (65 <= lookahead /\ lookahead <= 90) \/ lookahead = 95 \/ (97 <= lookahead /\ lookahead <= 122) THEN ADVANCE(469) ELSE  (* ('0' <= lookahead && lookahead <= '9') || ('A' <= lookahead && lookahead <= 'Z') || lookahead == '_' || ('a' <= lookahead && lookahead <= 'z') *)
         END_STATE)
    [] state = 377 ->
         ACCEPT_TOKEN(sym_identifier,
         IF lookahead = 101 THEN ADVANCE(269) ELSE  (* lookahead == 'e' *)
         IF (48 <= lookahead /\ lookahead <= 57) \/ (65 <= lookahead /\ lookahead <= 90) \/ lookahead = 95 \/ (97 <= lookahead /\ lookahead <= 122) THEN ADVANCE(469) ELSE  (* ('0' <= lookahead && lookahead <= '9') || ('A' <= lookahead && lookahead <= 'Z') || lookahead == '_' || ('a' <= lookahead && lookahead <= 'z') *)
         END_STATE)
    [] state = 378 ->
         ACCEPT_TOKEN(sym_identifier,
         IF lookahead = 101 THEN ADVANCE(323) ELSE  (* lookahead == 'e' *)
         IF (48 <= lookahead /\ lookahead <= 57) \/ (65 <= lookahead /\ lookahead <= 90) \/ lookahead = 95 \/ (97 <= lookahead /\ lookahead <= 122) THEN ADVANCE(469) ELSE  (* ('0' <= lookahead && lookahead <= '9') || ('A' <= lookahead && lookahead <= 'Z') || lookahead == '_' || ('a' <= lookahead && lookahead <= 'z') *)
         END_STATE)
    [] state = 379 ->
         ACCEPT_TOKEN(sym_identifier,
         IF lookahead = 101 THEN ADVANCE(364) ELSE  (* lookahead == 'e' *)
         IF lookahead = 111 THEN ADVANCE(456) ELSE  (* lookahead == 'o' *)
         IF (48 <= lookahead /\ lookahead <= 57) \/ (65 <= lookahead /\ lookahead <= 90) \/ lookahead = 95 \/ (97 <= lookahead /\ lookahead <= 122) THEN ADVANCE(469) ELSE  (* ('0' <= lookahead && lookahead <= '9') || ('A' <= lookahead && lookahead <= 'Z') || lookahead == '_' || ('a' <= lookahead && lookahead <= 'z') *)
         END_STATE)
    [] state = 380 ->
         ACCEPT_TOKEN(sym_identifier,
         IF lookahead = 101 THEN ADVANCE(364) ELSE  (* lookahead == 'e' *)
         IF (48 <= lookahead /\ lookahead <= 57) \/ (65 <= lookahead /\ lookahead <= 90) \/ lookahead = 95 \/ (97 <= lookahead /\ lookahead <= 122) THEN ADVANCE(469) ELSE  (* ('0' <= lookahead && lookahead <= '9') || ('A' <= lookahead && lookahead <= 'Z') || lookahead == '_' || ('a' <= lookahead && lookahead <= 'z') *)
         END_STATE)
    [] state = 381 ->
         ACCEPT_TOKEN(sym_identifier,
         IF lookahead = 101 THEN ADVANCE(428) ELSE  (* lookahead == 'e' *)
         IF (48 <= lookahead /\ lookahead <= 57) \/ (65 <= lookahead /\ lookahead <= 90) \/ lookahead = 95 \/ (97 <= lookahead /\ lookahead <= 122) THEN ADVANCE(469) ELSE  (* ('0' <= lookahead && lookahead <= '9') || ('A' <= lookahead && lookahead <= 'Z') || lookahead == '_' || ('a' <= lookahead && lookahead <= 'z') *)
         END_STATE)
    [] state = 382 ->
         ACCEPT_TOKEN(sym_identifier,
         IF lookahead = 101 THEN ADVANCE(429) ELSE  (* lookahead == 'e' *)
         IF (48 <= lookahead /\ lookahead <= 57) \/ (65 <= lookahead /\ lookahead <= 90) \/ lookahead = 95 \/ (97 <= lookahead /\ lookahead <= 122) THEN ADVANCE(469) ELSE  (* ('0' <= lookahead && lookahead <= '9') || ('A' <= lookahead && lookahead <= 'Z') || lookahead == '_' || ('a' <= lookahead && lookahead <= 'z') *)
         END_STATE)
    [] state = 383 ->
         ACCEPT_TOKEN(sym_identifier,
         IF lookahead = 101 THEN ADVANCE(448) ELSE  (* lookahead == 'e' *)
         IF (48 <= lookahead /\ lookahead <= 57) \/ (65 <= lookahead /\ lookahead <= 90) \/ lookahead = 95 \/ (97 <= lookahead /\ lookahead <= 122) THEN ADVANCE(469) ELSE  (* ('0' <= lookahead && lookahead <= '9') || ('A' <= lookahead && lookahead <= 'Z') || lookahead == '_' || ('a' <= lookahead && lookahead <= 'z') *)
         END_STATE)
    [] state = 384 ->
         ACCEPT_TOKEN(sym_identifier,
         IF lookahead = 102 THEN ADVANCE(385) ELSE  (* lookahead == 'f' *)
         IF lookahead = 112 THEN ADVANCE(350) ELSE  (* lookahead == 'p' *)
         IF (48 <= lookahead /\ lookahead <= 57) \/ (65 <= lookahead /\ lookahead <= 90) \/ lookahead = 95 \/ (97 <= lookahead /\ lookahead <= 122) THEN ADVANCE(469) ELSE  (* ('0' <= lookahead && lookahead <= '9') || ('A' <= lookahead && lookahead <= 'Z') || lookahead == '_' || ('a' <= lookahead && lookahead <= 'z') *)
         END_STATE)
    [] state = 385 ->
         ACCEPT_TOKEN(sym_identifier,
         IF lookahead = 102 THEN ADVANCE(439) ELSE  (* lookahead == 'f' *)
         IF (48 <= lookahead /\ lookahead <= 57) \/ (65 <= lookahead /\ lookahead <= 90) \/ lookahead = 95 \/ (97 <= lookahead /\ lookahead <= 122) THEN ADVANCE(469) ELSE  (* ('0' <= lookahead && lookahead <= '9') || ('A' <= lookahead && lookahead <= 'Z') || lookahead == '_' || ('a' <= lookahead && lookahead <= 'z') *)
         END_STATE)
    [] state = 386 ->
         ACCEPT_TOKEN(sym_identifier,
         IF lookahead = 103 THEN ADVANCE(305) ELSE  (* lookahead == 'g' *)
         IF (48 <= lookahead /\ lookahead <= 57) \/ (65 <= lookahead /\ lookahead <= 90) \/ lookahead = 95 \/ (97 <= lookahead /\ lookahead <= 122) THEN ADVANCE(469) ELSE  (* ('0' <= lookahead && lookahead <= '9') || ('A' <= lookahead && lookahead <= 'Z') || lookahead == '_' || ('a' <= lookahead && lookahead <= 'z') *)
         END_STATE)
    [] state = 387 ->
         ACCEPT_TOKEN(sym_identifier,
         IF lookahead = 103 THEN ADVANCE(254) ELSE  (* lookahead == 'g' *)
         IF (48 <= lookahead /\ lookahead <= 57) \/ (65 <= lookahead /\ lookahead <= 90) \/ lookahead = 95 \/ (97 <= lookahead /\ lookahead <= 122) THEN ADVANCE(469) ELSE  (* ('0' <= lookahead && lookahead <= '9') || ('A' <= lookahead && lookahead <= 'Z') || lookahead == '_' || ('a' <= lookahead && lookahead <= 'z') *)
         END_STATE)
    [] state = 388 ->
         ACCEPT_TOKEN(sym_identifier,
         IF lookahead = 103 THEN ADVANCE(391) ELSE  (* lookahead == 'g' *)
         IF (48 <= lookahead /\ lookahead <= 57) \/ (65 <= lookahead /\ lookahead <= 90) \/ lookahead = 95 \/ (97 <= lookahead /\ lookahead <= 122) THEN ADVANCE(469) ELSE  (* ('0' <= lookahead && lookahead <= '9') || ('A' <= lookahead && lookahead <= 'Z') || lookahead == '_' || ('a' <= lookahead && lookahead <= 'z') *)
         END_STATE)
    [] state = 389 ->
         ACCEPT_TOKEN(sym_identifier,
         IF lookahead = 104 THEN ADVANCE(272) ELSE  (* lookahead == 'h' *)
         IF (48 <= lookahead /\ lookahead <= 57) \/ (65 <= lookahead /\ lookahead <= 90) \/ lookahead = 95 \/ (97 <= lookahead /\ lookahead <= 122) THEN ADVANCE(469) ELSE  (* ('0' <= lookahead && lookahead <= '9') || ('A' <= lookahead && lookahead <= 'Z') || lookahead == '_' || ('a' <= lookahead && lookahead <= 'z') *)
         END_STATE)
    [] state = 390 ->
         ACCEPT_TOKEN(sym_identifier,
         IF lookahead = 104 THEN ADVANCE(284) ELSE  (* lookahead == 'h' *)
         IF (48 <= lookahead /\ lookahead <= 57) \/ (65 <= lookahead /\ lookahead <= 90) \/ lookahead = 95 \/ (97 <= lookahead /\ lookahead <= 122) THEN ADVANCE(469) ELSE  (* ('0' <= lookahead && lookahead <= '9') || ('A' <= lookahead && lookahead <= 'Z') || lookahead == '_' || ('a' <= lookahead && lookahead <= 'z') *)
         END_STATE)
    [] state = 391 ->
         ACCEPT_TOKEN(sym_identifier,
         IF lookahead = 104 THEN ADVANCE(446) ELSE  (* lookahead == 'h' *)
         IF (48 <= lookahead /\ lookahead <= 57) \/ (65 <= lookahead /\ lookahead <= 90) \/ lookahead = 95 \/ (97 <= lookahead /\ lookahead <= 122) THEN ADVANCE(469) ELSE  (* ('0' <= lookahead && lookahead <= '9') || ('A' <= lookahead && lookahead <= 'Z') || lookahead == '_' || ('a' <= lookahead && lookahead <= 'z') *)
         END_STATE)
    [] state = 392 ->
         ACCEPT_TOKEN(sym_identifier,
         IF lookahead = 105 THEN ADVANCE(409) ELSE  (* lookahead == 'i' *)
         IF (48 <= lookahead /\ lookahead <= 57) \/ (65 <= lookahead /\ lookahead <= 90) \/ lookahead = 95 \/ (97 <= lookahead /\ lookahead <= 122) THEN ADVANCE(469) ELSE  (* ('0' <= lookahead && lookahead <= '9') || ('A' <= lookahead && lookahead <= 'Z') || lookahead == '_' || ('a' <= lookahead && lookahead <= 'z') *)
         END_STATE)
    [] state = 393 ->
         ACCEPT_TOKEN(sym_identifier,
         IF lookahead = 105 THEN ADVANCE(404) ELSE  (* lookahead == 'i' *)
         IF lookahead = 111 THEN ADVANCE(415) ELSE  (* lookahead == 'o' *)
         IF (48 <= lookahead /\ lookahead <= 57) \/ (65 <= lookahead /\ lookahead <= 90) \/ lookahead = 95 \/ (97 <= lookahead /\ lookahead <= 122) THEN ADVANCE(469) ELSE  (* ('0' <= lookahead && lookahead <= '9') || ('A' <= lookahead && lookahead <= 'Z') || lookahead == '_' || ('a' <= lookahead && lookahead <= 'z') *)
         END_STATE)
    [] state = 394 ->
         ACCEPT_TOKEN(sym_identifier,
         IF lookahead = 105 THEN ADVANCE(422) ELSE  (* lookahead == 'i' *)
         IF (48 <= lookahead /\ lookahead <= 57) \/ (65 <= lookahead /\ lookahead <= 90) \/ lookahead = 95 \/ (97 <= lookahead /\ lookahead <= 122) THEN ADVANCE(469) ELSE  (* ('0' <= lookahead && lookahead <= '9') || ('A' <= lookahead && lookahead <= 'Z') || lookahead == '_' || ('a' <= lookahead && lookahead <= 'z') *)
         END_STATE)
    [] state = 395 ->
         ACCEPT_TOKEN(sym_identifier,
         IF lookahead = 105 THEN ADVANCE(426) ELSE  (* lookahead == 'i' *)
         IF (48 <= lookahead /\ lookahead <= 57) \/ (65 <= lookahead /\ lookahead <= 90) \/ lookahead = 95 \/ (97 <= lookahead /\ lookahead <= 122) THEN ADVANCE(469) ELSE  (* ('0' <= lookahead && lookahead <= '9') || ('A' <= lookahead && lookahead <= 'Z') || lookahead == '_' || ('a' <= lookahead && lookahead <= 'z') *)
         END_STATE)
    [] state = 396 ->
         ACCEPT_TOKEN(sym_identifier,
         IF lookahead = 105 THEN ADVANCE(388) ELSE  (* lookahead == 'i' *)
         IF (48 <= lookahead /\ lookahead <= 57) \/ (65 <= lookahead /\ lookahead <= 90) \/ lookahead = 95 \/ (97 <= lookahead /\ lookahead <= 122) THEN ADVANCE(469) ELSE  (* ('0' <= lookahead && lookahead <= '9') || ('A' <= lookahead && lookahead <= 'Z') || lookahead == '_' || ('a' <= lookahead && lookahead <= 'z') *)
         END_STATE)
    [] state = 397 ->
         ACCEPT_TOKEN(sym_identifier,
         IF lookahead = 105 THEN ADVANCE(412) ELSE  (* lookahead == 'i' *)
         IF (48 <= lookahead /\ lookahead <= 57) \/ (65 <= lookahead /\ lookahead <= 90) \/ lookahead = 95 \/ (97 <= lookahead /\ lookahead <= 122) THEN ADVANCE(469) ELSE  (* ('0' <= lookahead && lookahead <= '9') || ('A' <= lookahead && lookahead <= 'Z') || lookahead == '_' || ('a' <= lookahead && lookahead <= 'z') *)
         END_STATE)
    [] state = 398 ->
         ACCEPT_TOKEN(sym_identifier,
         IF lookahead = 105 THEN ADVANCE(423) ELSE  (* lookahead == 'i' *)
         IF (48 <= lookahead /\ lookahead <= 57) \/ (65 <= lookahead /\ lookahead <= 90) \/ lookahead = 95 \/ (97 <= lookahead /\ lookahead <= 122) THEN ADVANCE(469) ELSE  (* ('0' <= lookahead && lookahead <= '9') || ('A' <= lookahead && lookahead <= 'Z') || lookahead == '_' || ('a' <= lookahead && lookahead <= 'z') *)
         END_STATE)
    [] state = 399 ->
         ACCEPT_TOKEN(sym_identifier,
         IF lookahead = 105 THEN ADVANCE(449) ELSE  (* lookahead == 'i' *)
         IF (48 <= lookahead /\ lookahead <= 57) \/ (65 <= lookahead /\ lookahead <= 90) \/ lookahead = 95 \/ (97 <= lookahead /\ lookahead <= 122) THEN ADVANCE(469) ELSE  (* ('0' <= lookahead && lookahead <= '9') || ('A' <= lookahead && lookahead <= 'Z') || lookahead == '_' || ('a' <= lookahead && lookahead <= 'z') *)
         END_STATE)
    [] state = 400 ->
         ACCEPT_TOKEN(sym_identifier,
         IF lookahead = 105 THEN ADVANCE(450) ELSE  (* lookahead == 'i' *)
         IF (48 <= lookahead /\ lookahead <= 57) \/ (65 <= lookahead /\ lookahead <= 90) \/ lookahead = 95 \/ (97 <= lookahead /\ lookahead <= 122) THEN ADVANCE(469) ELSE  (* ('0' <= lookahead && lookahead <= '9') || ('A' <= lookahead && lookahead <= 'Z') || lookahead == '_' || ('a' <= lookahead && lookahead <= 'z') *)
         END_STATE)
    [] state = 401 ->
         ACCEPT_TOKEN(sym_identifier,
         IF lookahead = 107 THEN ADVANCE(376) ELSE  (* lookahead == 'k' *)
         IF (48 <= lookahead /\ lookahead <= 57) \/ (65 <= lookahead /\ lookahead <= 90) \/ lookahead = 95 \/ (97 <= lookahead /\ lookahead <= 122) THEN ADVANCE(469) ELSE  (* ('0' <= lookahead && lookahead <= '9') || ('A' <= lookahead && lookahead <= 'Z') || lookahead == '_' || ('a' <= lookahead && lookahead <= 'z') *)
         END_STATE)
    [] state = 402 ->
         ACCEPT_TOKEN(sym_identifier,
         IF lookahead = 108 THEN ADVANCE(405) ELSE  (* lookahead == 'l' *)
         IF (48 <= lookahead /\ lookahead <= 57) \/ (65 <= lookahead /\ lookahead <= 90) \/ lookahead = 95 \/ (97 <= lookahead /\ lookahead <= 122) THEN ADVANCE(469) ELSE  (* ('0' <= lookahead && lookahead <= '9') || ('A' <= lookahead && lookahead <= 'Z') || lookahead == '_' || ('a' <= lookahead && lookahead <= 'z') *)
         END_STATE)
    [] state = 403 ->
         ACCEPT_TOKEN(sym_identifier,
         IF lookahead = 108 THEN ADVANCE(290) ELSE  (* lookahead == 'l' *)
         IF (48 <= lookahead /\ lookahead <= 57) \/ (65 <= lookahead /\ lookahead <= 90) \/ lookahead = 95 \/ (97 <= lookahead /\ lookahead <= 122) THEN ADVANCE(469) ELSE  (* ('0' <= lookahead && lookahead <= '9') || ('A' <= lookahead && lookahead <= 'Z') || lookahead == '_' || ('a' <= lookahead && lookahead <= 'z') *)
         END_STATE)
    [] state = 404 ->
         ACCEPT_TOKEN(sym_identifier,
         IF lookahead = 108 THEN ADVANCE(403) ELSE  (* lookahead == 'l' *)
         IF (48 <= lookahead /\ lookahead <= 57) \/ (65 <= lookahead /\ lookahead <= 90) \/ lookahead = 95 \/ (97 <= lookahead /\ lookahead <= 122) THEN ADVANCE(469) ELSE  (* ('0' <= lookahead && lookahead <= '9') || ('A' <= lookahead && lookahead <= 'Z') || lookahead == '_' || ('a' <= lookahead && lookahead <= 'z') *)
         END_STATE)
    [] state = 405 ->
         ACCEPT_TOKEN(sym_identifier,
         IF lookahead = 108 THEN ADVANCE(395) ELSE  (* lookahead == 'l' *)
         IF (48 <= lookahead /\ lookahead <= 57) \/ (65 <= lookahead /\ lookahead <= 90) \/ lookahead = 95 \/ (97 <= lookahead /\ lookahead <= 122) THEN ADVANCE(469) ELSE  (* ('0' <= lookahead && lookahead <= '9') || ('A' <= lookahead && lookahead <= 'Z') || lookahead == '_' || ('a' <= lookahead && lookahead <= 'z') *)
         END_STATE)
    [] state = 406 ->
         ACCEPT_TOKEN(sym_identifier,
         IF lookahead = 108 THEN ADVANCE(373) ELSE  (* lookahead == 'l' *)
         IF (48 <= lookahead /\ lookahead <= 57) \/ (65 <= lookahead /\ lookahead <= 90) \/ lookahead = 95 \/ (97 <= lookahead /\ lookahead <= 122) THEN ADVANCE(469) ELSE  (* ('0' <= lookahead && lookahead <= '9') || ('A' <= lookahead && lookahead <= 'Z') || lookahead == '_' || ('a' <= lookahead && lookahead <= 'z') *)
         END_STATE)
    [] state = 407 ->
         ACCEPT_TOKEN(sym_identifier,
         IF lookahead = 108 THEN ADVANCE(374) ELSE  (* lookahead == 'l' *)
         IF (48 <= lookahead /\ lookahead <= 57) \/ (65 <= lookahead /\ lookahead <= 90) \/ lookahead = 95 \/ (97 <= lookahead /\ lookahead <= 122) THEN ADVANCE(469) ELSE  (* ('0' <= lookahead && lookahead <= '9') || ('A' <= lookahead && lookahead <= 'Z') || lookahead == '_' || ('a' <= lookahead && lookahead <= 'z') *)
         END_STATE)

ts_lex_408_447(state, lookahead, eof) ==
  CASE state = 408 ->
         ACCEPT_TOKEN(sym_identifier,
         IF lookahead = 108 THEN ADVANCE(358) ELSE  (* lookahead == 'l' *)
         IF (48 <= lookahead /\ lookahead <= 57) \/ (65 <= lookahead /\ lookahead <= 90) \/ lookahead = 95 \/ (97 <= lookahead /\ lookahead <= 122) THEN ADVANCE(469) ELSE  (* ('0' <= lookahead && lookahead <= '9') || ('A' <= lookahead && lookahead <= 'Z') || lookahead == '_' || ('a' <= lookahead && lookahead <= 'z') *)
         END_STATE)
    [] state = 409 ->
         ACCEPT_TOKEN(sym_identifier,
         IF lookahead = 109 THEN ADVANCE(339) ELSE  (* lookahead == 'm' *)
         IF (48 <= lookahead /\ lookahead <= 57) \/ (65 <= lookahead /\ lookahead <= 90) \/ lookahead = 95 \/ (97 <= lookahead /\ lookahead <= 122) THEN ADVANCE(469) ELSE  (* ('0' <= lookahead && lookahead <= '9') || ('A' <= lookahead && lookahead <= 'Z') || lookahead == '_' || ('a' <= lookahead && lookahead <= 'z') *)
         END_STATE)
    [] state = 410 ->
         ACCEPT_TOKEN(sym_identifier,
         IF lookahead = 110 THEN ADVANCE(392) ELSE  (* lookahead == 'n' *)
         IF (48 <= lookahead /\ lookahead <= 57) \/ (65 <= lookahead /\ lookahead <= 90) \/ lookahead = 95 \/ (97 <= lookahead /\ lookahead <= 122) THEN ADVANCE(469) ELSE  (* ('0' <= lookahead && lookahead <= '9') || ('A' <= lookahead && lookahead <= 'Z') || lookahead == '_' || ('a' <= lookahead && lookahead <= 'z') *)
         END_STATE)
    [] state = 411 ->
         ACCEPT_TOKEN(sym_identifier,
         IF lookahead = 110 THEN ADVANCE(335) ELSE  (* lookahead == 'n' *)
         IF (48 <= lookahead /\ lookahead <= 57) \/ (65 <= lookahead /\ lookahead <= 90) \/ lookahead = 95 \/ (97 <= lookahead /\ lookahead <= 122) THEN ADVANCE(469) ELSE  (* ('0' <= lookahead && lookahead <= '9') || ('A' <= lookahead && lookahead <= 'Z') || lookahead == '_' || ('a' <= lookahead && lookahead <= 'z') *)
         END_STATE)
    [] state = 412 ->
         ACCEPT_TOKEN(sym_identifier,
         IF lookahead = 110 THEN ADVANCE(326) ELSE  (* lookahead == 'n' *)
         IF (48 <= lookahead /\ lookahead <= 57) \/ (65 <= lookahead /\ lookahead <= 90) \/ lookahead = 95 \/ (97 <= lookahead /\ lookahead <= 122) THEN ADVANCE(469) ELSE  (* ('0' <= lookahead && lookahead <= '9') || ('A' <= lookahead && lookahead <= 'Z') || lookahead == '_' || ('a' <= lookahead && lookahead <= 'z') *)
         END_STATE)
    [] state = 413 ->
         ACCEPT_TOKEN(sym_identifier,
         IF lookahead = 110 THEN ADVANCE(438) ELSE  (* lookahead == 'n' *)
         IF (48 <= lookahead /\ lookahead <= 57) \/ (65 <= lookahead /\ lookahead <= 90) \/ lookahead = 95 \/ (97 <= lookahead /\ lookahead <= 122) THEN ADVANCE(469) ELSE  (* ('0' <= lookahead && lookahead <= '9') || ('A' <= lookahead && lookahead <= 'Z') || lookahead == '_' || ('a' <= lookahead && lookahead <= 'z') *)
         END_STATE)
    [] state = 414 ->
         ACCEPT_TOKEN(sym_identifier,
         IF lookahead = 110 THEN ADVANCE(454) ELSE  (* lookahead == 'n' *)
         IF (48 <= lookahead /\ lookahead <= 57) \/ (65 <= lookahead /\ lookahead <= 90) \/ lookahead = 95 \/ (97 <= lookahead /\ lookahead <= 122) THEN ADVANCE(469) ELSE  (* ('0' <= lookahead && lookahead <= '9') || ('A' <= lookahead && lookahead <= 'Z') || lookahead == '_' || ('a' <= lookahead && lookahead <= 'z') *)
         END_STATE)
    [] state = 415 ->
         ACCEPT_TOKEN(sym_identifier,
         IF lookahead = 110 THEN ADVANCE(442) ELSE  (* lookahead == 'n' *)
         IF (48 <= lookahead /\ lookahead <= 57) \/ (65 <= lookahead /\ lookahead <= 90) \/ lookahead = 95 \/ (97 <= lookahead /\ lookahead <= 122) THEN ADVANCE(469) ELSE  (* ('0' <= lookahead && lookahead <= '9') || ('A' <= lookahead && lookahead <= 'Z') || lookahead == '_' || ('a' <= lookahead && lookahead <= 'z') *)
         END_STATE)
    [] state = 416 ->
         ACCEPT_TOKEN(sym_identifier,
         IF lookahead = 110 THEN ADVANCE(382) ELSE  (* lookahead == 'n' *)
         IF (48 <= lookahead /\ lookahead <= 57) \/ (65 <= lookahead /\ lookahead <= 90) \/ lookahead = 95 \/ (97 <= lookahead /\ lookahead <= 122) THEN ADVANCE(469) ELSE  (* ('0' <= lookahead && lookahead <= '9') || ('A' <= lookahead && lookahead <= 'Z') || lookahead == '_' || ('a' <= lookahead && lookahead <= 'z') *)
         END_STATE)
    [] state = 417 ->
         ACCEPT_TOKEN(sym_identifier,
         IF lookahead = 111 THEN ADVANCE(401) ELSE  (* lookahead == 'o' *)
         IF (48 <= lookahead /\ lookahead <= 57) \/ (65 <= lookahead /\ lookahead <= 90) \/ lookahead = 95 \/ (97 <= lookahead /\ lookahead <= 122) THEN ADVANCE(469) ELSE  (* ('0' <= lookahead && lookahead <= '9') || ('A' <= lookahead && lookahead <= 'Z') || lookahead == '_' || ('a' <= lookahead && lookahead <= 'z') *)
         END_STATE)
    [] state = 418 ->
         ACCEPT_TOKEN(sym_identifier,
         IF lookahead = 111 THEN ADVANCE(463) ELSE  (* lookahead == 'o' *)
         IF (48 <= lookahead /\ lookahead <= 57) \/ (65 <= lookahead /\ lookahead <= 90) \/ lookahead = 95 \/ (97 <= lookahead /\ lookahead <= 122) THEN ADVANCE(469) ELSE  (* ('0' <= lookahead && lookahead <= '9') || ('A' <= lookahead && lookahead <= 'Z') || lookahead == '_' || ('a' <= lookahead && lookahead <= 'z') *)
         END_STATE)
    [] state = 419 ->
         ACCEPT_TOKEN(sym_identifier,
         IF lookahead = 111 THEN ADVANCE(461) ELSE  (* lookahead == 'o' *)
         IF (48 <= lookahead /\ lookahead <= 57) \/ (65 <= lookahead /\ lookahead <= 90) \/ lookahead = 95 \/ (97 <= lookahead /\ lookahead <= 122) THEN ADVANCE(469) ELSE  (* ('0' <= lookahead && lookahead <= '9') || ('A' <= lookahead && lookahead <= 'Z') || lookahead == '_' || ('a' <= lookahead && lookahead <= 'z') *)
         END_STATE)
    [] state = 420 ->
         ACCEPT_TOKEN(sym_identifier,
         IF lookahead = 111 THEN ADVANCE(456) ELSE  (* lookahead == 'o' *)
         IF (48 <= lookahead /\ lookahead <= 57) \/ (65 <= lookahead /\ lookahead <= 90) \/ lookahead = 95 \/ (97 <= lookahead /\ lookahead <= 122) THEN ADVANCE(469) ELSE  (* ('0' <= lookahead && lookahead <= '9') || ('A' <= lookahead && lookahead <= 'Z') || lookahead == '_' || ('a' <= lookahead && lookahead <= 'z') *)
         END_STATE)
    [] state = 421 ->
         ACCEPT_TOKEN(sym_identifier,
         IF lookahead = 111 THEN ADVANCE(462) ELSE  (* lookahead == 'o' *)
         IF (48 <= lookahead /\ lookahead <= 57) \/ (65 <= lookahead /\ lookahead <= 90) \/ lookahead = 95 \/ (97 <= lookahead /\ lookahead <= 122) THEN ADVANCE(469) ELSE  (* ('0' <= lookahead && lookahead <= '9') || ('A' <= lookahead && lookahead <= 'Z') || lookahead == '_' || ('a' <= lookahead && lookahead <= 'z') *)
         END_STATE)
    [] state = 422 ->
         ACCEPT_TOKEN(sym_identifier,
         IF lookahead = 111 THEN ADVANCE(434) ELSE  (* lookahead == 'o' *)
         IF (48 <= lookahead /\ lookahead <= 57) \/ (65 <= lookahead /\ lookahead <= 90) \/ lookahead = 95 \/ (97 <= lookahead /\ lookahead <= 122) THEN ADVANCE(469) ELSE  (* ('0' <= lookahead && lookahead <= '9') || ('A' <= lookahead && lookahead <= 'Z') || lookahead == '_' || ('a' <= lookahead && lookahead <= 'z') *)
         END_STATE)
    [] state = 423 ->
         ACCEPT_TOKEN(sym_identifier,
         IF lookahead = 111 THEN ADVANCE(411) ELSE  (* lookahead == 'o' *)
         IF (48 <= lookahead /\ lookahead <= 57) \/ (65 <= lookahead /\ lookahead <= 90) \/ lookahead = 95 \/ (97 <= lookahead /\ lookahead <= 122) THEN ADVANCE(469) ELSE  (* ('0' <= lookahead && lookahead <= '9') || ('A' <= lookahead && lookahead <= 'Z') || lookahead == '_' || ('a' <= lookahead && lookahead <= 'z') *)
         END_STATE)
    [] state = 424 ->
         ACCEPT_TOKEN(sym_identifier,
         IF lookahead = 112 THEN ADVANCE(263) ELSE  (* lookahead == 'p' *)
         IF (48 <= lookahead /\ lookahead <= 57) \/ (65 <= lookahead /\ lookahead <= 90) \/ lookahead = 95 \/ (97 <= lookahead /\ lookahead <= 122) THEN ADVANCE(469) ELSE  (* ('0' <= lookahead && lookahead <= '9') || ('A' <= lookahead && lookahead <= 'Z') || lookahead == '_' || ('a' <= lookahead && lookahead <= 'z') *)
         END_STATE)
    [] state = 425 ->
         ACCEPT_TOKEN(sym_identifier,
         IF lookahead = 112 THEN ADVANCE(445) ELSE  (* lookahead == 'p' *)
         IF (48 <= lookahead /\ lookahead <= 57) \/ (65 <= lookahead /\ lookahead <= 90) \/ lookahead = 95 \/ (97 <= lookahead /\ lookahead <= 122) THEN ADVANCE(469) ELSE  (* ('0' <= lookahead && lookahead <= '9') || ('A' <= lookahead && lookahead <= 'Z') || lookahead == '_' || ('a' <= lookahead && lookahead <= 'z') *)
         END_STATE)
    [] state = 426 ->
         ACCEPT_TOKEN(sym_identifier,
         IF lookahead = 112 THEN ADVANCE(440) ELSE  (* lookahead == 'p' *)
         IF (48 <= lookahead /\ lookahead <= 57) \/ (65 <= lookahead /\ lookahead <= 90) \/ lookahead = 95 \/ (97 <= lookahead /\ lookahead <= 122) THEN ADVANCE(469) ELSE  (* ('0' <= lookahead && lookahead <= '9') || ('A' <= lookahead && lookahead <= 'Z') || lookahead == '_' || ('a' <= lookahead && lookahead <= 'z') *)
         END_STATE)
    [] state = 427 ->
         ACCEPT_TOKEN(sym_identifier,
         IF lookahead = 114 THEN ADVANCE(419) ELSE  (* lookahead == 'r' *)
         IF (48 <= lookahead /\ lookahead <= 57) \/ (65 <= lookahead /\ lookahead <= 90) \/ lookahead = 95 \/ (97 <= lookahead /\ lookahead <= 122) THEN ADVANCE(469) ELSE  (* ('0' <= lookahead && lookahead <= '9') || ('A' <= lookahead && lookahead <= 'Z') || lookahead == '_' || ('a' <= lookahead && lookahead <= 'z') *)
         END_STATE)
    [] state = 428 ->
         ACCEPT_TOKEN(sym_identifier,
         IF lookahead = 114 THEN ADVANCE(344) ELSE  (* lookahead == 'r' *)
         IF (48 <= lookahead /\ lookahead <= 57) \/ (65 <= lookahead /\ lookahead <= 90) \/ lookahead = 95 \/ (97 <= lookahead /\ lookahead <= 122) THEN ADVANCE(469) ELSE  (* ('0' <= lookahead && lookahead <= '9') || ('A' <= lookahead && lookahead <= 'Z') || lookahead == '_' || ('a' <= lookahead && lookahead <= 'z') *)
         END_STATE)
    [] state = 429 ->
         ACCEPT_TOKEN(sym_identifier,
         IF lookahead = 114 THEN ADVANCE(296) ELSE  (* lookahead == 'r' *)
         IF (48 <= lookahead /\ lookahead <= 57) \/ (65 <= lookahead /\ lookahead <= 90) \/ lookahead = 95 \/ (97 <= lookahead /\ lookahead <= 122) THEN ADVANCE(469) ELSE  (* ('0' <= lookahead && lookahead <= '9') || ('A' <= lookahead && lookahead <= 'Z') || lookahead == '_' || ('a' <= lookahead && lookahead <= 'z') *)
         END_STATE)
    [] state = 430 ->
         ACCEPT_TOKEN(sym_identifier,
         IF lookahead = 114 THEN ADVANCE(416) ELSE  (* lookahead == 'r' *)
         IF (48 <= lookahead /\ lookahead <= 57) \/ (65 <= lookahead /\ lookahead <= 90) \/ lookahead = 95 \/ (97 <= lookahead /\ lookahead <= 122) THEN ADVANCE(469) ELSE  (* ('0' <= lookahead && lookahead <= '9') || ('A' <= lookahead && lookahead <= 'Z') || lookahead == '_' || ('a' <= lookahead && lookahead <= 'z') *)
         END_STATE)
    [] state = 431 ->
         ACCEPT_TOKEN(sym_identifier,
         IF lookahead = 114 THEN ADVANCE(417) ELSE  (* lookahead == 'r' *)
         IF (48 <= lookahead /\ lookahead <= 57) \/ (65 <= lookahead /\ lookahead <= 90) \/ lookahead = 95 \/ (97 <= lookahead /\ lookahead <= 122) THEN ADVANCE(469) ELSE  (* ('0' <= lookahead && lookahead <= '9') || ('A' <= lookahead && lookahead <= 'Z') || lookahead == '_' || ('a' <= lookahead && lookahead <= 'z') *)
         END_STATE)
    [] state = 432 ->
         ACCEPT_TOKEN(sym_identifier,
         IF lookahead = 114 THEN ADVANCE(351) ELSE  (* lookahead == 'r' *)
         IF (48 <= lookahead /\ lookahead <= 57) \/ (65 <= lookahead /\ lookahead <= 90) \/ lookahead = 95 \/ (97 <= lookahead /\ lookahead <= 122) THEN ADVANCE(469) ELSE  (* ('0' <= lookahead && lookahead <= '9') || ('A' <= lookahead && lookahead <= 'Z') || lookahead == '_' || ('a' <= lookahead && lookahead <= 'z') *)
         END_STATE)
    [] state = 433 ->
         ACCEPT_TOKEN(sym_identifier,
         IF lookahead = 114 THEN ADVANCE(354) ELSE  (* lookahead == 'r' *)
         IF (48 <= lookahead /\ lookahead <= 57) \/ (65 <= lookahead /\ lookahead <= 90) \/ lookahead = 95 \/ (97 <= lookahead /\ lookahead <= 122) THEN ADVANCE(469) ELSE  (* ('0' <= lookahead && lookahead <= '9') || ('A' <= lookahead && lookahead <= 'Z') || lookahead == '_' || ('a' <= lookahead && lookahead <= 'z') *)
         END_STATE)
    [] state = 434 ->
         ACCEPT_TOKEN(sym_identifier,
         IF lookahead = 114 THEN ADVANCE(400) ELSE  (* lookahead == 'r' *)
         IF (48 <= lookahead /\ lookahead <= 57) \/ (65 <= lookahead /\ lookahead <= 90) \/ lookahead = 95 \/ (97 <= lookahead /\ lookahead <= 122) THEN ADVANCE(469) ELSE  (* ('0' <= lookahead && lookahead <= '9') || ('A' <= lookahead && lookahead <= 'Z') || lookahead == '_' || ('a' <= lookahead && lookahead <= 'z') *)
         END_STATE)
    [] state = 435 ->
         ACCEPT_TOKEN(sym_identifier,
         IF lookahead = 115 THEN ADVANCE(370) ELSE  (* lookahead == 's' *)
         IF (48 <= lookahead /\ lookahead <= 57) \/ (65 <= lookahead /\ lookahead <= 90) \/ lookahead = 95 \/ (97 <= lookahead /\ lookahead <= 122) THEN ADVANCE(469) ELSE  (* ('0' <= lookahead && lookahead <= '9') || ('A' <= lookahead && lookahead <= 'Z') || lookahead == '_' || ('a' <= lookahead && lookahead <= 'z') *)
         END_STATE)
    [] state = 436 ->
         ACCEPT_TOKEN(sym_identifier,
         IF lookahead = 115 THEN ADVANCE(250) ELSE  (* lookahead == 's' *)
         IF (48 <= lookahead /\ lookahead <= 57) \/ (65 <= lookahead /\ lookahead <= 90) \/ lookahead = 95 \/ (97 <= lookahead /\ lookahead <= 122) THEN ADVANCE(469) ELSE  (* ('0' <= lookahead && lookahead <= '9') || ('A' <= lookahead && lookahead <= 'Z') || lookahead == '_' || ('a' <= lookahead && lookahead <= 'z') *)
         END_STATE)
    [] state = 437 ->
         ACCEPT_TOKEN(sym_identifier,
         IF lookahead = 115 THEN ADVANCE(372) ELSE  (* lookahead == 's' *)
         IF (48 <= lookahead /\ lookahead <= 57) \/ (65 <= lookahead /\ lookahead <= 90) \/ lookahead = 95 \/ (97 <= lookahead /\ lookahead <= 122) THEN ADVANCE(469) ELSE  (* ('0' <= lookahead && lookahead <= '9') || ('A' <= lookahead && lookahead <= 'Z') || lookahead == '_' || ('a' <= lookahead && lookahead <= 'z') *)
         END_STATE)
    [] state = 438 ->
         ACCEPT_TOKEN(sym_identifier,
         IF lookahead = 115 THEN ADVANCE(408) ELSE  (* lookahead == 's' *)
         IF (48 <= lookahead /\ lookahead <= 57) \/ (65 <= lookahead /\ lookahead <= 90) \/ lookahead = 95 \/ (97 <= lookahead /\ lookahead <= 122) THEN ADVANCE(469) ELSE  (* ('0' <= lookahead && lookahead <= '9') || ('A' <= lookahead && lookahead <= 'Z') || lookahead == '_' || ('a' <= lookahead && lookahead <= 'z') *)
         END_STATE)
    [] state = 439 ->
         ACCEPT_TOKEN(sym_identifier,
         IF lookahead = 115 THEN ADVANCE(383) ELSE  (* lookahead == 's' *)
         IF (48 <= lookahead /\ lookahead <= 57) \/ (65 <= lookahead /\ lookahead <= 90) \/ lookahead = 95 \/ (97 <= lookahead /\ lookahead <= 122) THEN ADVANCE(469) ELSE  (* ('0' <= lookahead && lookahead <= '9') || ('A' <= lookahead && lookahead <= 'Z') || lookahead == '_' || ('a' <= lookahead && lookahead <= 'z') *)
         END_STATE)
    [] state = 440 ->
         ACCEPT_TOKEN(sym_identifier,
         IF lookahead = 115 THEN ADVANCE(377) ELSE  (* lookahead == 's' *)
         IF (48 <= lookahead /\ lookahead <= 57) \/ (65 <= lookahead /\ lookahead <= 90) \/ lookahead = 95 \/ (97 <= lookahead /\ lookahead <= 122) THEN ADVANCE(469) ELSE  (* ('0' <= lookahead && lookahead <= '9') || ('A' <= lookahead && lookahead <= 'Z') || lookahead == '_' || ('a' <= lookahead && lookahead <= 'z') *)
         END_STATE)
    [] state = 441 ->
         ACCEPT_TOKEN(sym_identifier,
         IF lookahead = 116 THEN ADVANCE(389) ELSE  (* lookahead == 't' *)
         IF (48 <= lookahead /\ lookahead <= 57) \/ (65 <= lookahead /\ lookahead <= 90) \/ lookahead = 95 \/ (97 <= lookahead /\ lookahead <= 122) THEN ADVANCE(469) ELSE  (* ('0' <= lookahead && lookahead <= '9') || ('A' <= lookahead && lookahead <= 'Z') || lookahead == '_' || ('a' <= lookahead && lookahead <= 'z') *)
         END_STATE)
    [] state = 442 ->
         ACCEPT_TOKEN(sym_identifier,
         IF lookahead = 116 THEN ADVANCE(302) ELSE  (* lookahead == 't' *)
         IF (48 <= lookahead /\ lookahead <= 57) \/ (65 <= lookahead /\ lookahead <= 90) \/ lookahead = 95 \/ (97 <= lookahead /\ lookahead <= 122) THEN ADVANCE(469) ELSE  (* ('0' <= lookahead && lookahead <= '9') || ('A' <= lookahead && lookahead <= 'Z') || lookahead == '_' || ('a' <= lookahead && lookahead <= 'z') *)
         END_STATE)
    [] state = 443 ->
         ACCEPT_TOKEN(sym_identifier,
         IF lookahead = 116 THEN ADVANCE(266) ELSE  (* lookahead == 't' *)
         IF (48 <= lookahead /\ lookahead <= 57) \/ (65 <= lookahead /\ lookahead <= 90) \/ lookahead = 95 \/ (97 <= lookahead /\ lookahead <= 122) THEN ADVANCE(469) ELSE  (* ('0' <= lookahead && lookahead <= '9') || ('A' <= lookahead && lookahead <= 'Z') || lookahead == '_' || ('a' <= lookahead && lookahead <= 'z') *)
         END_STATE)
    [] state = 444 ->
         ACCEPT_TOKEN(sym_identifier,
         IF lookahead = 116 THEN ADVANCE(275) ELSE  (* lookahead == 't' *)
         IF (48 <= lookahead /\ lookahead <= 57) \/ (65 <= lookahead /\ lookahead <= 90) \/ lookahead = 95 \/ (97 <= lookahead /\ lookahead <= 122) THEN ADVANCE(469) ELSE  (* ('0' <= lookahead && lookahead <= '9') || ('A' <= lookahead && lookahead <= 'Z') || lookahead == '_' || ('a' <= lookahead && lookahead <= 'z') *)
         END_STATE)
    [] state = 445 ->
         ACCEPT_TOKEN(sym_identifier,
         IF lookahead = 116 THEN ADVANCE(248) ELSE  (* lookahead == 't' *)
         IF (48 <= lookahead /\ lookahead <= 57) \/ (65 <= lookahead /\ lookahead <= 90) \/ lookahead = 95 \/ (97 <= lookahead /\ lookahead <= 122) THEN ADVANCE(469) ELSE  (* ('0' <= lookahead && lookahead <= '9') || ('A' <= lookahead && lookahead <= 'Z') || lookahead == '_' || ('a' <= lookahead && lookahead <= 'z') *)
         END_STATE)
    [] state = 446 ->
         ACCEPT_TOKEN(sym_identifier,
         IF lookahead = 116 THEN ADVANCE(287) ELSE  (* lookahead == 't' *)
         IF (48 <= lookahead /\ lookahead <= 57) \/ (65 <= lookahead /\ lookahead <= 90) \/ lookahead = 95 \/ (97 <= lookahead /\ lookahead <= 122) THEN ADVANCE(469) ELSE  (* ('0' <= lookahead && lookahead <= '9') || ('A' <= lookahead && lookahead <= 'Z') || lookahead == '_' || ('a' <= lookahead && lookahead <= 'z') *)
         END_STATE)
    [] state = 447 ->
         ACCEPT_TOKEN(sym_identifier,
         IF lookahead = 116 THEN ADVANCE(311) ELSE  (* lookahead == 't' *)
         IF (48 <= lookahead /\ lookahead <= 57) \/ (65 <= lookahead /\ lookahead <= 90) \/ lookahead = 95 \/ (97 <= lookahead /\ lookahead <= 122) THEN ADVANCE(469) ELSE  (* ('0' <= lookahead && lookahead <= '9') || ('A' <= lookahead && lookahead <= 'Z') || lookahead == '_' || ('a' <= lookahead && lookahead <= 'z') *)
         END_STATE)

ts_lex_448_469(state, lookahead, eof) ==
  CASE state = 448 ->
         ACCEPT_TOKEN(sym_identifier,
         IF lookahead = 116 THEN ADVANCE(329) ELSE  (* lookahead == 't' *)
         IF (48 <= lookahead /\ lookahead <= 57) \/ (65 <= lookahead /\ lookahead <= 90) \/ lookahead = 95 \/ (97 <= lookahead /\ lookahead <= 122) THEN ADVANCE(469) ELSE  (* ('0' <= lookahead && lookahead <= '9') || ('A' <= lookahead && lookahead <= 'Z') || lookahead == '_' || ('a' <= lookahead && lookahead <= 'z') *)
         END_STATE)
    [] state = 449 ->
         ACCEPT_TOKEN(sym_identifier,
         IF lookahead = 116 THEN ADVANCE(465) ELSE  (* lookahead == 't' *)
         IF (48 <= lookahead /\ lookahead <= 57) \/ (65 <= lookahead /\ lookahead <= 90) \/ lookahead = 95 \/ (97 <= lookahead /\ lookahead <= 122) THEN ADVANCE(469) ELSE  (* ('0' <= lookahead && lookahead <= '9') || ('A' <= lookahead && lookahead <= 'Z') || lookahead == '_' || ('a' <= lookahead && lookahead <= 'z') *)
         END_STATE)
    [] state = 450 ->
         ACCEPT_TOKEN(sym_identifier,
         IF lookahead = 116 THEN ADVANCE(466) ELSE  (* lookahead == 't' *)
         IF (48 <= lookahead /\ lookahead <= 57) \/ (65 <= lookahead /\ lookahead <= 90) \/ lookahead = 95 \/ (97 <= lookahead /\ lookahead <= 122) THEN ADVANCE(469) ELSE  (* ('0' <= lookahead && lookahead <= '9') || ('A' <= lookahead && lookahead <= 'Z') || lookahead == '_' || ('a' <= lookahead && lookahead <= 'z') *)
         END_STATE)
    [] state = 451 ->
         ACCEPT_TOKEN(sym_identifier,
         IF lookahead = 116 THEN ADVANCE(390) ELSE  (* lookahead == 't' *)
         IF (48 <= lookahead /\ lookahead <= 57) \/ (65 <= lookahead /\ lookahead <= 90) \/ lookahead = 95 \/ (97 <= lookahead /\ lookahead <= 122) THEN ADVANCE(469) ELSE  (* ('0' <= lookahead && lookahead <= '9') || ('A' <= lookahead && lookahead <= 'Z') || lookahead == '_' || ('a' <= lookahead && lookahead <= 'z') *)
         END_STATE)
    [] state = 452 ->
         ACCEPT_TOKEN(sym_identifier,
         IF lookahead = 116 THEN ADVANCE(460) ELSE  (* lookahead == 't' *)
         IF (48 <= lookahead /\ lookahead <= 57) \/ (65 <= lookahead /\ lookahead <= 90) \/ lookahead = 95 \/ (97 <= lookahead /\ lookahead <= 122) THEN ADVANCE(469) ELSE  (* ('0' <= lookahead && lookahead <= '9') || ('A' <= lookahead && lookahead <= 'Z') || lookahead == '_' || ('a' <= lookahead && lookahead <= 'z') *)
         END_STATE)
    [] state = 453 ->
         ACCEPT_TOKEN(sym_identifier,
         IF lookahead = 116 THEN ADVANCE(468) ELSE  (* lookahead == 't' *)
         IF (48 <= lookahead /\ lookahead <= 57) \/ (65 <= lookahead /\ lookahead <= 90) \/ lookahead = 95 \/ (97 <= lookahead /\ lookahead <= 122) THEN ADVANCE(469) ELSE  (* ('0' <= lookahead && lookahead <= '9') || ('A' <= lookahead && lookahead <= 'Z') || lookahead == '_' || ('a' <= lookahead && lookahead <= 'z') *)
         END_STATE)
    [] state = 454 ->
         ACCEPT_TOKEN(sym_identifier,
         IF lookahead = 116 THEN ADVANCE(381) ELSE  (* lookahead == 't' *)
         IF (48 <= lookahead /\ lookahead <= 57) \/ (65 <= lookahead /\ lookahead <= 90) \/ lookahead = 95 \/ (97 <= lookahead /\ lookahead <= 122) THEN ADVANCE(469) ELSE  (* ('0' <= lookahead && lookahead <= '9') || ('A' <= lookahead && lookahead <= 'Z') || lookahead == '_' || ('a' <= lookahead && lookahead <= 'z') *)
         END_STATE)
    [] state = 455 ->
         ACCEPT_TOKEN(sym_identifier,
         IF lookahead = 116 THEN ADVANCE(398) ELSE  (* lookahead == 't' *)
         IF (48 <= lookahead /\ lookahead <= 57) \/ (65 <= lookahead /\ lookahead <= 90) \/ lookahead = 95 \/ (97 <= lookahead /\ lookahead <= 122) THEN ADVANCE(469) ELSE  (* ('0' <= lookahead && lookahead <= '9') || ('A' <= lookahead && lookahead <= 'Z') || lookahead == '_' || ('a' <= lookahead && lookahead <= 'z') *)
         END_STATE)
    [] state = 456 ->
         ACCEPT_TOKEN(sym_identifier,
         IF lookahead = 116 THEN ADVANCE(357) ELSE  (* lookahead == 't' *)
         IF (48 <= lookahead /\ lookahead <= 57) \/ (65 <= lookahead /\ lookahead <= 90) \/ lookahead = 95 \/ (97 <= lookahead /\ lookahead <= 122) THEN ADVANCE(469) ELSE  (* ('0' <= lookahead && lookahead <= '9') || ('A' <= lookahead && lookahead <= 'Z') || lookahead == '_' || ('a' <= lookahead && lookahead <= 'z') *)
         END_STATE)
    [] state = 457 ->
         ACCEPT_TOKEN(sym_identifier,
         IF lookahead = 116 THEN ADVANCE(375) ELSE  (* lookahead == 't' *)
         IF (48 <= lookahead /\ lookahead <= 57) \/ (65 <= lookahead /\ lookahead <= 90) \/ lookahead = 95 \/ (97 <= lookahead /\ lookahead <= 122) THEN ADVANCE(469) ELSE  (* ('0' <= lookahead && lookahead <= '9') || ('A' <= lookahead && lookahead <= 'Z') || lookahead == '_' || ('a' <= lookahead && lookahead <= 'z') *)
         END_STATE)
    [] state = 458 ->
         ACCEPT_TOKEN(sym_identifier,
         IF lookahead = 116 THEN ADVANCE(378) ELSE  (* lookahead == 't' *)
         IF (48 <= lookahead /\ lookahead <= 57) \/ (65 <= lookahead /\ lookahead <= 90) \/ lookahead = 95 \/ (97 <= lookahead /\ lookahead <= 122) THEN ADVANCE(469) ELSE  (* ('0' <= lookahead && lookahead <= '9') || ('A' <= lookahead && lookahead <= 'Z') || lookahead == '_' || ('a' <= lookahead && lookahead <= 'z') *)
         END_STATE)
    [] state = 459 ->
         ACCEPT_TOKEN(sym_identifier,
         IF lookahead = 117 THEN ADVANCE(433) ELSE  (* lookahead == 'u' *)
         IF (48 <= lookahead /\ lookahead <= 57) \/ (65 <= lookahead /\ lookahead <= 90) \/ lookahead = 95 \/ (97 <= lookahead /\ lookahead <= 122) THEN ADVANCE(469) ELSE  (* ('0' <= lookahead && lookahead <= '9') || ('A' <= lookahead && lookahead <= 'Z') || lookahead == '_' || ('a' <= lookahead && lookahead <= 'z') *)
         END_STATE)
    [] state = 460 ->
         ACCEPT_TOKEN(sym_identifier,
         IF lookahead = 117 THEN ADVANCE(436) ELSE  (* lookahead == 'u' *)
         IF (48 <= lookahead /\ lookahead <= 57) \/ (65 <= lookahead /\ lookahead <= 90) \/ lookahead = 95 \/ (97 <= lookahead /\ lookahead <= 122) THEN ADVANCE(469) ELSE  (* ('0' <= lookahead && lookahead <= '9') || ('A' <= lookahead && lookahead <= 'Z') || lookahead == '_' || ('a' <= lookahead && lookahead <= 'z') *)
         END_STATE)
    [] state = 461 ->
         ACCEPT_TOKEN(sym_identifier,
         IF lookahead = 117 THEN ADVANCE(424) ELSE  (* lookahead == 'u' *)
         IF (48 <= lookahead /\ lookahead <= 57) \/ (65 <= lookahead /\ lookahead <= 90) \/ lookahead = 95 \/ (97 <= lookahead /\ lookahead <= 122) THEN ADVANCE(469) ELSE  (* ('0' <= lookahead && lookahead <= '9') || ('A' <= lookahead && lookahead <= 'Z') || lookahead == '_' || ('a' <= lookahead && lookahead <= 'z') *)
         END_STATE)
    [] state = 462 ->
         ACCEPT_TOKEN(sym_identifier,
         IF lookahead = 117 THEN ADVANCE(447) ELSE  (* lookahead == 'u' *)
         IF (48 <= lookahead /\ lookahead <= 57) \/ (65 <= lookahead /\ lookahead <= 90) \/ lookahead = 95 \/ (97 <= lookahead /\ lookahead <= 122) THEN ADVANCE(469) ELSE  (* ('0' <= lookahead && lookahead <= '9') || ('A' <= lookahead && lookahead <= 'Z') || lookahead == '_' || ('a' <= lookahead && lookahead <= 'z') *)
         END_STATE)
    [] state = 463 ->
         ACCEPT_TOKEN(sym_identifier,
         IF lookahead = 119 THEN ADVANCE(314) ELSE  (* lookahead == 'w' *)
         IF (48 <= lookahead /\ lookahead <= 57) \/ (65 <= lookahead /\ lookahead <= 90) \/ lookahead = 95 \/ (97 <= lookahead /\ lookahead <= 122) THEN ADVANCE(469) ELSE  (* ('0' <= lookahead && lookahead <= '9') || ('A' <= lookahead && lookahead <= 'Z') || lookahead == '_' || ('a' <= lookahead && lookahead <= 'z') *)
         END_STATE)
    [] state = 464 ->
         ACCEPT_TOKEN(sym_identifier,
         IF lookahead = 120 THEN ADVANCE(444) ELSE  (* lookahead == 'x' *)
         IF (48 <= lookahead /\ lookahead <= 57) \/ (65 <= lookahead /\ lookahead <= 90) \/ lookahead = 95 \/ (97 <= lookahead /\ lookahead <= 122) THEN ADVANCE(469) ELSE  (* ('0' <= lookahead && lookahead <= '9') || ('A' <= lookahead && lookahead <= 'Z') || lookahead == '_' || ('a' <= lookahead && lookahead <= 'z') *)
         END_STATE)
    [] state = 465 ->
         ACCEPT_TOKEN(sym_identifier,
         IF lookahead = 121 THEN ADVANCE(299) ELSE  (* lookahead == 'y' *)
         IF (48 <= lookahead /\ lookahead <= 57) \/ (65 <= lookahead /\ lookahead <= 90) \/ lookahead = 95 \/ (97 <= lookahead /\ lookahead <= 122) THEN ADVANCE(469) ELSE  (* ('0' <= lookahead && lookahead <= '9') || ('A' <= lookahead && lookahead <= 'Z') || lookahead == '_' || ('a' <= lookahead && lookahead <= 'z') *)
         END_STATE)
    [] state = 466 ->
         ACCEPT_TOKEN(sym_identifier,
         IF lookahead = 121 THEN ADVANCE(252) ELSE  (* lookahead == 'y' *)
         IF (48 <= lookahead /\ lookahead <= 57) \/ (65 <= lookahead /\ lookahead <= 90) \/ lookahead = 95 \/ (97 <= lookahead /\ lookahead <= 122) THEN ADVANCE(469) ELSE  (* ('0' <= lookahead && lookahead <= '9') || ('A' <= lookahead && lookahead <= 'Z') || lookahead == '_' || ('a' <= lookahead && lookahead <= 'z') *)
         END_STATE)
    [] state = 467 ->
         ACCEPT_TOKEN(sym_identifier,
         IF lookahead = 121 THEN ADVANCE(421) ELSE  (* lookahead == 'y' *)
         IF (48 <= lookahead /\ lookahead <= 57) \/ (65 <= lookahead /\ lookahead <= 90) \/ lookahead = 95 \/ (97 <= lookahead /\ lookahead <= 122) THEN ADVANCE(469) ELSE  (* ('0' <= lookahead && lookahead <= '9') || ('A' <= lookahead && lookahead <= 'Z') || lookahead == '_' || ('a' <= lookahead && lookahead <= 'z') *)
         END_STATE)
    [] state = 468 ->
         ACCEPT_TOKEN(sym_identifier,
         IF lookahead = 121 THEN ADVANCE(407) ELSE  (* lookahead == 'y' *)
         IF (48 <= lookahead /\ lookahead <= 57) \/ (65 <= lookahead /\ lookahead <= 90) \/ lookahead = 95 \/ (97 <= lookahead /\ lookahead <= 122) THEN ADVANCE(469) ELSE  (* ('0' <= lookahead && lookahead <= '9') || ('A' <= lookahead && lookahead <= 'Z') || lookahead == '_' || ('a' <= lookahead && lookahead <= 'z') *)
         END_STATE)
    [] state = 469 ->
         ACCEPT_TOKEN(sym_identifier,
         IF (48 <= lookahead /\ lookahead <= 57) \/ (65 <= lookahead /\ lookahead <= 90) \/ lookahead = 95 \/ (97 <= lookahead /\ lookahead <= 122) THEN ADVANCE(469) ELSE  (* ('0' <= lookahead && lookahead <= '9') || ('A' <= lookahead && lookahead <= 'Z') || lookahead == '_' || ('a' <= lookahead && lookahead <= 'z') *)
         END_STATE)

ts_lex_470(lookahead, eof) ==
  ACCEPT_TOKEN(sym_number,
  END_STATE)

\* C18 mutant: case 471 (the digits of a number) takes a `.` straight to
\* the accepting state of the fraction, so that `1.` is a number
ts_lex_471_C18(lookahead, eof) ==
  ACCEPT_TOKEN(sym_number,
  IF lookahead = 46 THEN ADVANCE(472) ELSE
  IF lookahead = 109 THEN ADVANCE(83) ELSE
  IF (48 <= lookahead /\ lookahead <= 57) THEN ADVANCE(471) ELSE
  END_STATE)

ts_lex_471(lookahead, eof) ==
  ACCEPT_TOKEN(sym_number,
  IF lookahead = 46 THEN ADVANCE(111) ELSE  (* lookahead == '.' *)
  IF lookahead = 109 THEN ADVANCE(83) ELSE  (* lookahead == 'm' *)
  IF (48 <= lookahead /\ lookahead <= 57) THEN ADVANCE(471) ELSE  (* ('0' <= lookahead && lookahead <= '9') *)
  END_STATE)

ts_lex_472(lookahead, eof) ==
  ACCEPT_TOKEN(sym_number,
  IF lookahead = 109 THEN ADVANCE(83) ELSE  (* lookahead == 'm' *)
  IF (48 <= lookahead /\ lookahead <= 57) THEN ADVANCE(472) ELSE  (* ('0' <= lookahead && lookahead <= '9') *)
  END_STATE)

ts_lex_473(lookahead, eof) ==
  ACCEPT_TOKEN(sym_hex_color,
  END_STATE)

ts_lex_474(lookahead, eof) ==
  ACCEPT_TOKEN(sym_hex_color,
  IF (48 <= lookahead /\ lookahead <= 57) \/ (65 <= lookahead /\ lookahead <= 70) \/ (97 <= lookahead /\ lookahead <= 102) THEN ADVANCE(473) ELSE  (* ('0' <= lookahead && lookahead <= '9') || ('A' <= lookahead && lookahead <= 'F') || ('a' <= lookahead && lookahead <= 'f') *)
  END_STATE)

ts_lex_475(lookahead, eof) ==
  ACCEPT_TOKEN(sym_hex_color,
  IF (48 <= lookahead /\ lookahead <= 57) \/ (65 <= lookahead /\ lookahead <= 70) \/ (97 <= lookahead /\ lookahead <= 102) THEN ADVANCE(474) ELSE  (* ('0' <= lookahead && lookahead <= '9') || ('A' <= lookahead && lookahead <= 'F') || ('a' <= lookahead && lookahead <= 'f') *)
  END_STATE)

ts_lex_476(lookahead, eof) ==
  ACCEPT_TOKEN(sym_hex_color,
  IF (48 <= lookahead /\ lookahead <= 57) \/ (65 <= lookahead /\ lookahead <= 70) \/ (97 <= lookahead /\ lookahead <= 102) THEN ADVANCE(475) ELSE  (* ('0' <= lookahead && lookahead <= '9') || ('A' <= lookahead && lookahead <= 'F') || ('a' <= lookahead && lookahead <= 'f') *)
  END_STATE)

ts_lex_477(lookahead, eof) ==
  ACCEPT_TOKEN(sym_hex_color,
  IF (48 <= lookahead /\ lookahead <= 57) \/ (65 <= lookahead /\ lookahead <= 70) \/ (97 <= lookahead /\ lookahead <= 102) THEN ADVANCE(476) ELSE  (* ('0' <= lookahead && lookahead <= '9') || ('A' <= lookahead && lookahead <= 'F') || ('a' <= lookahead && lookahead <= 'f') *)
  END_STATE)

ts_lex_478(lookahead, eof) ==
  ACCEPT_TOKEN(sym_hex_color,
  IF (48 <= lookahead /\ lookahead <= 57) \/ (65 <= lookahead /\ lookahead <= 70) \/ (97 <= lookahead /\ lookahead <= 102) THEN ADVANCE(477) ELSE  (* ('0' <= lookahead && lookahead <= '9') || ('A' <= lookahead && lookahead <= 'F') || ('a' <= lookahead && lookahead <= 'f') *)
  END_STATE)

\* C26 mutant: case 479 (a `"` is accepted) skips a space that follows the
\* quote: the token start moves behind the marked end of the token
ts_lex_479_C26(lookahead, eof) ==
  ACCEPT_TOKEN(anon_sym_DQUOTE,
  IF lookahead = 32 THEN SKIP(113) ELSE
  END_STATE)

ts_lex_479(lookahead, eof) ==
  ACCEPT_TOKEN(anon_sym_DQUOTE,
  END_STATE)

ts_lex_480(lookahead, eof) ==
  ACCEPT_TOKEN(anon_sym_DQUOTE,
  IF lookahead # 0 /\ lookahead # 10 THEN ADVANCE(247) ELSE  (* lookahead != 0 && lookahead != '\n' *)
  END_STATE)

ts_lex_481(lookahead, eof) ==
  ACCEPT_TOKEN(aux_sym_string_token1,
  IF lookahead = 10 THEN ADVANCE(484) ELSE  (* lookahead == '\n' *)
  IF lookahead # 0 /\ lookahead # 34 THEN ADVANCE(481) ELSE  (* lookahead != 0 && lookahead != '"' *)
  END_STATE)

ts_lex_482(lookahead, eof) ==
  ACCEPT_TOKEN(aux_sym_string_token1,
  IF lookahead = 35 THEN ADVANCE(483) ELSE  (* lookahead == '#' *)
  IF (9 <= lookahead /\ lookahead <= 13) \/ lookahead = 32 THEN ADVANCE(482) ELSE  (* ('\t' <= lookahead && lookahead <= '\r') || lookahead == ' ' *)
  IF lookahead # 0 /\ lookahead # 34 /\ lookahead # 35 THEN ADVANCE(484) ELSE  (* lookahead != 0 && lookahead != '"' && lookahead != '#' *)
  END_STATE)

ts_lex_483(lookahead, eof) ==
  ACCEPT_TOKEN(aux_sym_string_token1,
  IF lookahead = 10 \/ lookahead = 35 THEN ADVANCE(484) ELSE  (* lookahead == '\n' || lookahead == '#' *)
  IF lookahead # 0 /\ lookahead # 34 /\ lookahead # 35 THEN ADVANCE(481) ELSE  (* lookahead != 0 && lookahead != '"' && lookahead != '#' *)
  END_STATE)

\* C9 mutant: case 484 (string content) also stops at a newline
ts_lex_484_C9(lookahead, eof) ==
  ACCEPT_TOKEN(aux_sym_string_token1,
  IF lookahead # 0 /\ lookahead # 34 /\ lookahead # 10 THEN ADVANCE(484) ELSE
  END_STATE)

ts_lex_484(lookahead, eof) ==
  ACCEPT_TOKEN(aux_sym_string_token1,
  IF lookahead # 0 /\ lookahead # 34 THEN ADVANCE(484) ELSE  (* lookahead != 0 && lookahead != '"' *)
  END_STATE)

\* ---- ts_lex: the switch (state) dispatch; an unknown state returns false
ts_lex_switch(state, lookahead, eof) ==
  CASE state = 0 -> ts_lex_0(lookahead, eof)
    [] state = 1 -> ts_lex_1(lookahead, eof)
    [] state = 2 -> ts_lex_2(lookahead, eof)
    [] state = 3 -> ts_lex_3(lookahead, eof)
    [] state = 4 -> ts_lex_4(lookahead, eof)
    [] state = 5 -> ts_lex_5(lookahead, eof)
    [] state = 6 -> ts_lex_6(lookahead, eof)
    [] state = 7 -> ts_lex_7(lookahead, eof)
    [] state = 8 -> ts_lex_8(lookahead, eof)
    [] state = 9 -> ts_lex_9(lookahead, eof)
    [] state = 10 -> ts_lex_10(lookahead, eof)
    [] state \in 11..50 -> ts_lex_11_50(state, lookahead, eof)
    [] state \in 51..90 -> ts_lex_51_90(state, lookahead, eof)
    [] state \in 91..111 -> ts_lex_91_111(state, lookahead, eof)
    [] state = 112 -> ts_lex_112(lookahead, eof)
    [] state = 113 -> ts_lex_113(lookahead, eof)
    [] state = 114 -> ts_lex_114(lookahead, eof)
    [] state = 115 -> ts_lex_115(lookahead, eof)
    [] state = 116 -> ts_lex_116(lookahead, eof)
    [] state = 117 -> ts_lex_117(lookahead, eof)
    [] state = 118 -> ts_lex_118(lookahead, eof)
    [] state = 119 -> ts_lex_119(lookahead, eof)
    [] state = 120 -> ts_lex_120(lookahead, eof)
    [] state = 121 -> ts_lex_121(lookahead, eof)
    [] state = 122 -> ts_lex_122(lookahead, eof)
    [] state = 123 -> ts_lex_123(lookahead, eof)
    [] state = 124 -> ts_lex_124(lookahead, eof)
    [] state = 125 -> ts_lex_125(lookahead, eof)
    [] state = 126 -> ts_lex_126(lookahead, eof)
    [] state = 127 -> ts_lex_127(lookahead, eof)
    [] state = 128 -> ts_lex_128(lookahead, eof)
    [] state \in 129..168 -> ts_lex_129_168(state, lookahead, eof)
    [] state \in 169..208 -> ts_lex_169_208(state, lookahead, eof)
    [] state \in 209..246 -> ts_lex_209_246(state, lookahead, eof)
    [] state = 247 -> ts_lex_247(lookahead, eof)
    [] state \in 248..287 -> ts_lex_248_287(state, lookahead, eof)
    [] state \in 288..327 -> ts_lex_288_327(state, lookahead, eof)
    [] state \in 328..367 -> ts_lex_328_367(state, lookahead, eof)
    [] state \in 368..407 -> ts_lex_368_407(state, lookahead, eof)
    [] state \in 408..447 -> ts_lex_408_447(state, lookahead, eof)
    [] state \in 448..469 -> ts_lex_448_469(state, lookahead, eof)
    [] state = 470 -> ts_lex_470(lookahead, eof)
    [] state = 471 -> ts_lex_471(lookahead, eof)
    [] state = 472 -> ts_lex_472(lookahead, eof)
    [] state = 473 -> ts_lex_473(lookahead, eof)
    [] state = 474 -> ts_lex_474(lookahead, eof)
    [] state = 475 -> ts_lex_475(lookahead, eof)
    [] state = 476 -> ts_lex_476(lookahead, eof)
    [] state = 477 -> ts_lex_477(lookahead, eof)
    [] state = 478 -> ts_lex_478(lookahead, eof)
    [] state = 479 -> ts_lex_479(lookahead, eof)
    [] state = 480 -> ts_lex_480(lookahead, eof)
    [] state = 481 -> ts_lex_481(lookahead, eof)
    [] state = 482 -> ts_lex_482(lookahead, eof)
    [] state = 483 -> ts_lex_483(lookahead, eof)
    [] state = 484 -> ts_lex_484(lookahead, eof)
    [] OTHER -> END_STATE

\* C16 mutant: state 74, reached by the `@` of a node id, lexes in the mode
\* of the node body (116), which knows the keywords
ts_lex_modes_C16 ==
  <<  0, 116,   3,   3,   1, 116, 116, 116, 116, 116,
    116, 116, 116, 116,   3,   3,   3,   3, 116,   4,
    116, 116, 116, 116, 116, 116, 116, 116, 116, 116,
      4, 116, 116, 116,   4,   4,   4,   4, 116, 116,
    116, 116, 116, 115, 115, 114, 116, 116, 115, 115,
    115, 115,   5,   5,   5, 116, 116,   5,   5,   5,
    116, 116, 116,   2, 116, 116, 116, 116, 116, 116,
      8, 116, 116, 116, 116,   8, 116, 116, 116, 116,
    116,   8, 116, 482, 116,   8, 116,   8,   8, 116,
    482, 116, 482, 482>>

\* ---- ts_lex_modes: parse state -> lex_state (a sequence indexed by state + 1)
ts_lex_modes ==
  <<  0, 116,   3,   3,   1, 116, 116, 116, 116, 116,
    116, 116, 116, 116,   3,   3,   3,   3, 116,   4,
    116, 116, 116, 116, 116, 116, 116, 116, 116, 116,
      4, 116, 116, 116,   4,   4,   4,   4, 116, 116,
    116, 116, 116, 115, 115, 114, 116, 116, 115, 115,
    115, 115,   5,   5,   5, 116, 116,   5,   5,   5,
    116, 116, 116,   2, 116, 116, 116, 116, 116, 116,
      8, 116, 116, 116,   8,   8, 116, 116, 116, 116,
    116,   8, 116, 482, 116,   8, 116,   8,   8, 116,
    482, 116, 482, 482>>

\* C8 mutant: the row of the error state holds a shift, not RECOVER, for `}`
ts_parse_table_0_C8 ==
  <<<<ts_builtin_sym_end, ACTIONS_ID(1)>>,
    <<sym_comment, ACTIONS_ID(3)>>,
    <<anon_sym_POUND_POUND, ACTIONS_ID(1)>>,
    <<anon_sym_COLON, ACTIONS_ID(1)>>,
    <<anon_sym_accept, ACTIONS_ID(1)>>,
    <<anon_sym_status, ACTIONS_ID(1)>>,
    <<anon_sym_priority, ACTIONS_ID(1)>>,
    <<anon_sym_tag, ACTIONS_ID(1)>>,
    <<anon_sym_style, ACTIONS_ID(1)>>,
    <<anon_sym_LBRACE, ACTIONS_ID(1)>>,
    <<anon_sym_RBRACE, ACTIONS_ID(84)>>,
    <<anon_sym_group, ACTIONS_ID(1)>>,
    <<anon_sym_rect, ACTIONS_ID(1)>>,
    <<anon_sym_ellipse, ACTIONS_ID(1)>>,
    <<anon_sym_path, ACTIONS_ID(1)>>,
    <<anon_sym_text, ACTIONS_ID(1)>>,
    <<anon_sym_w, ACTIONS_ID(1)>>,
    <<anon_sym_h, ACTIONS_ID(1)>>,
    <<anon_sym_width, ACTIONS_ID(1)>>,
    <<anon_sym_height, ACTIONS_ID(1)>>,
    <<anon_sym_fill, ACTIONS_ID(1)>>,
    <<anon_sym_stroke, ACTIONS_ID(1)>>,
    <<anon_sym_corner, ACTIONS_ID(1)>>,
    <<anon_sym_opacity, ACTIONS_ID(1)>>,
    <<anon_sym_font, ACTIONS_ID(1)>>,
    <<anon_sym_bg, ACTIONS_ID(1)>>,
    <<anon_sym_use, ACTIONS_ID(1)>>,
    <<anon_sym_layout, ACTIONS_ID(1)>>,
    <<anon_sym_shadow, ACTIONS_ID(1)>>,
    <<anon_sym_scale, ACTIONS_ID(1)>>,
    <<anon_sym_rotate, ACTIONS_ID(1)>>,
    <<anon_sym_translate, ACTIONS_ID(1)>>,
    <<anon_sym_center_in, ACTIONS_ID(1)>>,
    <<anon_sym_offset, ACTIONS_ID(1)>>,
    <<anon_sym_ease, ACTIONS_ID(1)>>,
    <<anon_sym_duration, ACTIONS_ID(1)>>,
    <<anon_sym_EQ, ACTIONS_ID(1)>>,
    <<anon_sym_anim, ACTIONS_ID(1)>>,
    <<anon_sym_DASH_GT, ACTIONS_ID(1)>>,
    <<anon_sym_AT, ACTIONS_ID(1)>>,
    <<sym_identifier, ACTIONS_ID(1)>>,
    <<sym_number, ACTIONS_ID(1)>>,
    <<sym_hex_color, ACTIONS_ID(1)>>,
    <<anon_sym_DQUOTE, ACTIONS_ID(1)>>>>

\* ---- ts_parse_table: one row per large state, as <<symbol, ACTIONS_ID(i) or STATE_ID(s)>> pairs
ts_parse_table_0 ==
  <<<<ts_builtin_sym_end, ACTIONS_ID(1)>>,
    <<sym_comment, ACTIONS_ID(3)>>,
    <<anon_sym_POUND_POUND, ACTIONS_ID(1)>>,
    <<anon_sym_COLON, ACTIONS_ID(1)>>,
    <<anon_sym_accept, ACTIONS_ID(1)>>,
    <<anon_sym_status, ACTIONS_ID(1)>>,
    <<anon_sym_priority, ACTIONS_ID(1)>>,
    <<anon_sym_tag, ACTIONS_ID(1)>>,
    <<anon_sym_style, ACTIONS_ID(1)>>,
    <<anon_sym_LBRACE, ACTIONS_ID(1)>>,
    <<anon_sym_RBRACE, ACTIONS_ID(1)>>,
    <<anon_sym_group, ACTIONS_ID(1)>>,
    <<anon_sym_rect, ACTIONS_ID(1)>>,
    <<anon_sym_ellipse, ACTIONS_ID(1)>>,
    <<anon_sym_path, ACTIONS_ID(1)>>,
    <<anon_sym_text, ACTIONS_ID(1)>>,
    <<anon_sym_w, ACTIONS_ID(1)>>,
    <<anon_sym_h, ACTIONS_ID(1)>>,
    <<anon_sym_width, ACTIONS_ID(1)>>,
    <<anon_sym_height, ACTIONS_ID(1)>>,
    <<anon_sym_fill, ACTIONS_ID(1)>>,
    <<anon_sym_stroke, ACTIONS_ID(1)>>,
    <<anon_sym_corner, ACTIONS_ID(1)>>,
    <<anon_sym_opacity, ACTIONS_ID(1)>>,
    <<anon_sym_font, ACTIONS_ID(1)>>,
    <<anon_sym_bg, ACTIONS_ID(1)>>,
    <<anon_sym_use, ACTIONS_ID(1)>>,
    <<anon_sym_layout, ACTIONS_ID(1)>>,
    <<anon_sym_shadow, ACTIONS_ID(1)>>,
    <<anon_sym_scale, ACTIONS_ID(1)>>,
    <<anon_sym_rotate, ACTIONS_ID(1)>>,
    <<anon_sym_translate, ACTIONS_ID(1)>>,
    <<anon_sym_center_in, ACTIONS_ID(1)>>,
    <<anon_sym_offset, ACTIONS_ID(1)>>,
    <<anon_sym_ease, ACTIONS_ID(1)>>,
    <<anon_sym_duration, ACTIONS_ID(1)>>,
    <<anon_sym_EQ, ACTIONS_ID(1)>>,
    <<anon_sym_anim, ACTIONS_ID(1)>>,
    <<anon_sym_DASH_GT, ACTIONS_ID(1)>>,
    <<anon_sym_AT, ACTIONS_ID(1)>>,
    <<sym_identifier, ACTIONS_ID(1)>>,
    <<sym_number, ACTIONS_ID(1)>>,
    <<sym_hex_color, ACTIONS_ID(1)>>,
    <<anon_sym_DQUOTE, ACTIONS_ID(1)>>>>

\* C28 mutant: the start state (state 1) takes the end of input with the
\* ACCEPT_INPUT entry: an empty input is accepted before any reduce
ts_parse_table_1_C28 ==
  <<<<sym_document, STATE_ID(68)>>,
    <<sym_annotation, STATE_ID(47)>>,
    <<sym_style_block, STATE_ID(47)>>,
    <<sym_node_declaration, STATE_ID(47)>>,
    <<sym_node_kind, STATE_ID(60)>>,
    <<sym_constraint_line, STATE_ID(47)>>,
    <<sym_node_id, STATE_ID(72)>>,
    <<aux_sym_document_repeat1, STATE_ID(47)>>,
    <<ts_builtin_sym_end, ACTIONS_ID(284)>>,
    <<sym_comment, ACTIONS_ID(7)>>,
    <<anon_sym_POUND_POUND, ACTIONS_ID(9)>>,
    <<anon_sym_style, ACTIONS_ID(11)>>,
    <<anon_sym_group, ACTIONS_ID(13)>>,
    <<anon_sym_rect, ACTIONS_ID(13)>>,
    <<anon_sym_ellipse, ACTIONS_ID(13)>>,
    <<anon_sym_path, ACTIONS_ID(13)>>,
    <<anon_sym_text, ACTIONS_ID(13)>>,
    <<anon_sym_AT, ACTIONS_ID(15)>>>>

ts_parse_table_1 ==
  <<<<sym_document, STATE_ID(68)>>,
    <<sym_annotation, STATE_ID(47)>>,
    <<sym_style_block, STATE_ID(47)>>,
    <<sym_node_declaration, STATE_ID(47)>>,
    <<sym_node_kind, STATE_ID(60)>>,
    <<sym_constraint_line, STATE_ID(47)>>,
    <<sym_node_id, STATE_ID(72)>>,
    <<aux_sym_document_repeat1, STATE_ID(47)>>,
    <<ts_builtin_sym_end, ACTIONS_ID(5)>>,
    <<sym_comment, ACTIONS_ID(7)>>,
    <<anon_sym_POUND_POUND, ACTIONS_ID(9)>>,
    <<anon_sym_style, ACTIONS_ID(11)>>,
    <<anon_sym_group, ACTIONS_ID(13)>>,
    <<anon_sym_rect, ACTIONS_ID(13)>>,
    <<anon_sym_ellipse, ACTIONS_ID(13)>>,
    <<anon_sym_path, ACTIONS_ID(13)>>,
    <<anon_sym_text, ACTIONS_ID(13)>>,
    <<anon_sym_AT, ACTIONS_ID(15)>>>>

\* C37 mutant: state 2 (after the first value of a value list) shifts `=` as
\* state 14 does, instead of reducing on `##`
ts_parse_table_2_C37 ==
  <<<<sym__value_item, STATE_ID(3)>>,
    <<sym_key_value_pair, STATE_ID(3)>>,
    <<sym_node_id, STATE_ID(3)>>,
    <<sym_string, STATE_ID(3)>>,
    <<aux_sym_property_repeat1, STATE_ID(3)>>,
    <<sym_comment, ACTIONS_ID(3)>>,
    <<anon_sym_EQ, ACTIONS_ID(98)>>,
    <<anon_sym_RBRACE, ACTIONS_ID(17)>>,
    <<anon_sym_group, ACTIONS_ID(19)>>,
    <<anon_sym_rect, ACTIONS_ID(19)>>,
    <<anon_sym_ellipse, ACTIONS_ID(19)>>,
    <<anon_sym_path, ACTIONS_ID(19)>>,
    <<anon_sym_text, ACTIONS_ID(19)>>,
    <<anon_sym_w, ACTIONS_ID(19)>>,
    <<anon_sym_h, ACTIONS_ID(19)>>,
    <<anon_sym_width, ACTIONS_ID(19)>>,
    <<anon_sym_height, ACTIONS_ID(19)>>,
    <<anon_sym_fill, ACTIONS_ID(19)>>,
    <<anon_sym_stroke, ACTIONS_ID(19)>>,
    <<anon_sym_corner, ACTIONS_ID(19)>>,
    <<anon_sym_opacity, ACTIONS_ID(19)>>,
    <<anon_sym_font, ACTIONS_ID(19)>>,
    <<anon_sym_bg, ACTIONS_ID(19)>>,
    <<anon_sym_use, ACTIONS_ID(19)>>,
    <<anon_sym_layout, ACTIONS_ID(19)>>,
    <<anon_sym_shadow, ACTIONS_ID(19)>>,
    <<anon_sym_scale, ACTIONS_ID(19)>>,
    <<anon_sym_rotate, ACTIONS_ID(19)>>,
    <<anon_sym_translate, ACTIONS_ID(19)>>,
    <<anon_sym_center_in, ACTIONS_ID(19)>>,
    <<anon_sym_offset, ACTIONS_ID(19)>>,
    <<anon_sym_ease, ACTIONS_ID(19)>>,
    <<anon_sym_duration, ACTIONS_ID(19)>>,
    <<anon_sym_anim, ACTIONS_ID(19)>>,
    <<anon_sym_AT, ACTIONS_ID(21)>>,
    <<sym_identifier, ACTIONS_ID(23)>>,
    <<sym_number, ACTIONS_ID(25)>>,
    <<sym_hex_color, ACTIONS_ID(25)>>,
    <<anon_sym_DQUOTE, ACTIONS_ID(27)>>>>

ts_parse_table_2 ==
  <<<<sym__value_item, STATE_ID(3)>>,
    <<sym_key_value_pair, STATE_ID(3)>>,
    <<sym_node_id, STATE_ID(3)>>,
    <<sym_string, STATE_ID(3)>>,
    <<aux_sym_property_repeat1, STATE_ID(3)>>,
    <<sym_comment, ACTIONS_ID(3)>>,
    <<anon_sym_POUND_POUND, ACTIONS_ID(17)>>,
    <<anon_sym_RBRACE, ACTIONS_ID(17)>>,
    <<anon_sym_group, ACTIONS_ID(19)>>,
    <<anon_sym_rect, ACTIONS_ID(19)>>,
    <<anon_sym_ellipse, ACTIONS_ID(19)>>,
    <<anon_sym_path, ACTIONS_ID(19)>>,
    <<anon_sym_text, ACTIONS_ID(19)>>,
    <<anon_sym_w, ACTIONS_ID(19)>>,
    <<anon_sym_h, ACTIONS_ID(19)>>,
    <<anon_sym_width, ACTIONS_ID(19)>>,
    <<anon_sym_height, ACTIONS_ID(19)>>,
    <<anon_sym_fill, ACTIONS_ID(19)>>,
    <<anon_sym_stroke, ACTIONS_ID(19)>>,
    <<anon_sym_corner, ACTIONS_ID(19)>>,
    <<anon_sym_opacity, ACTIONS_ID(19)>>,
    <<anon_sym_font, ACTIONS_ID(19)>>,
    <<anon_sym_bg, ACTIONS_ID(19)>>,
    <<anon_sym_use, ACTIONS_ID(19)>>,
    <<anon_sym_layout, ACTIONS_ID(19)>>,
    <<anon_sym_shadow, ACTIONS_ID(19)>>,
    <<anon_sym_scale, ACTIONS_ID(19)>>,
    <<anon_sym_rotate, ACTIONS_ID(19)>>,
    <<anon_sym_translate, ACTIONS_ID(19)>>,
    <<anon_sym_center_in, ACTIONS_ID(19)>>,
    <<anon_sym_offset, ACTIONS_ID(19)>>,
    <<anon_sym_ease, ACTIONS_ID(19)>>,
    <<anon_sym_duration, ACTIONS_ID(19)>>,
    <<anon_sym_anim, ACTIONS_ID(19)>>,
    <<anon_sym_AT, ACTIONS_ID(21)>>,
    <<sym_identifier, ACTIONS_ID(23)>>,
    <<sym_number, ACTIONS_ID(25)>>,
    <<sym_hex_color, ACTIONS_ID(25)>>,
    <<anon_sym_DQUOTE, ACTIONS_ID(27)>>>>

ts_parse_table_3 ==
  <<<<sym__value_item, STATE_ID(3)>>,
    <<sym_key_value_pair, STATE_ID(3)>>,
    <<sym_node_id, STATE_ID(3)>>,
    <<sym_string, STATE_ID(3)>>,
    <<aux_sym_property_repeat1, STATE_ID(3)>>,
    <<sym_comment, ACTIONS_ID(3)>>,
    <<anon_sym_POUND_POUND, ACTIONS_ID(29)>>,
    <<anon_sym_RBRACE, ACTIONS_ID(29)>>,
    <<anon_sym_group, ACTIONS_ID(31)>>,
    <<anon_sym_rect, ACTIONS_ID(31)>>,
    <<anon_sym_ellipse, ACTIONS_ID(31)>>,
    <<anon_sym_path, ACTIONS_ID(31)>>,
    <<anon_sym_text, ACTIONS_ID(31)>>,
    <<anon_sym_w, ACTIONS_ID(31)>>,
    <<anon_sym_h, ACTIONS_ID(31)>>,
    <<anon_sym_width, ACTIONS_ID(31)>>,
    <<anon_sym_height, ACTIONS_ID(31)>>,
    <<anon_sym_fill, ACTIONS_ID(31)>>,
    <<anon_sym_stroke, ACTIONS_ID(31)>>,
    <<anon_sym_corner, ACTIONS_ID(31)>>,
    <<anon_sym_opacity, ACTIONS_ID(31)>>,
    <<anon_sym_font, ACTIONS_ID(31)>>,
    <<anon_sym_bg, ACTIONS_ID(31)>>,
    <<anon_sym_use, ACTIONS_ID(31)>>,
    <<anon_sym_layout, ACTIONS_ID(31)>>,
    <<anon_sym_shadow, ACTIONS_ID(31)>>,
    <<anon_sym_scale, ACTIONS_ID(31)>>,
    <<anon_sym_rotate, ACTIONS_ID(31)>>,
    <<anon_sym_translate, ACTIONS_ID(31)>>,
    <<anon_sym_center_in, ACTIONS_ID(31)>>,
    <<anon_sym_offset, ACTIONS_ID(31)>>,
    <<anon_sym_ease, ACTIONS_ID(31)>>,
    <<anon_sym_duration, ACTIONS_ID(31)>>,
    <<anon_sym_anim, ACTIONS_ID(31)>>,
    <<anon_sym_AT, ACTIONS_ID(33)>>,
    <<sym_identifier, ACTIONS_ID(36)>>,
    <<sym_number, ACTIONS_ID(39)>>,
    <<sym_hex_color, ACTIONS_ID(39)>>,
    <<anon_sym_DQUOTE, ACTIONS_ID(42)>>>>

ts_parse_table_4 ==
  <<<<sym_annotation_typed, STATE_ID(25)>>,
    <<sym_annotation_keyword, STATE_ID(86)>>,
    <<sym_string, STATE_ID(25)>>,
    <<sym_comment, ACTIONS_ID(3)>>,
    <<anon_sym_POUND_POUND, ACTIONS_ID(45)>>,
    <<sym_annotation_text, ACTIONS_ID(47)>>,
    <<anon_sym_accept, ACTIONS_ID(49)>>,
    <<anon_sym_status, ACTIONS_ID(49)>>,
    <<anon_sym_priority, ACTIONS_ID(49)>>,
    <<anon_sym_tag, ACTIONS_ID(49)>>,
    <<anon_sym_RBRACE, ACTIONS_ID(45)>>,
    <<anon_sym_group, ACTIONS_ID(45)>>,
    <<anon_sym_rect, ACTIONS_ID(45)>>,
    <<anon_sym_ellipse, ACTIONS_ID(45)>>,
    <<anon_sym_path, ACTIONS_ID(45)>>,
    <<anon_sym_text, ACTIONS_ID(45)>>,
    <<anon_sym_w, ACTIONS_ID(45)>>,
    <<anon_sym_h, ACTIONS_ID(45)>>,
    <<anon_sym_width, ACTIONS_ID(45)>>,
    <<anon_sym_height, ACTIONS_ID(45)>>,
    <<anon_sym_fill, ACTIONS_ID(45)>>,
    <<anon_sym_stroke, ACTIONS_ID(45)>>,
    <<anon_sym_corner, ACTIONS_ID(45)>>,
    <<anon_sym_opacity, ACTIONS_ID(45)>>,
    <<anon_sym_font, ACTIONS_ID(45)>>,
    <<anon_sym_bg, ACTIONS_ID(45)>>,
    <<anon_sym_use, ACTIONS_ID(45)>>,
    <<anon_sym_layout, ACTIONS_ID(45)>>,
    <<anon_sym_shadow, ACTIONS_ID(45)>>,
    <<anon_sym_scale, ACTIONS_ID(45)>>,
    <<anon_sym_rotate, ACTIONS_ID(45)>>,
    <<anon_sym_translate, ACTIONS_ID(45)>>,
    <<anon_sym_center_in, ACTIONS_ID(45)>>,
    <<anon_sym_offset, ACTIONS_ID(45)>>,
    <<anon_sym_ease, ACTIONS_ID(45)>>,
    <<anon_sym_duration, ACTIONS_ID(45)>>,
    <<anon_sym_anim, ACTIONS_ID(45)>>,
    <<anon_sym_DQUOTE, ACTIONS_ID(51)>>>>

\* C13 mutant: the row of a node body (state 5) also takes a style block
\* as an item
ts_parse_table_5_C13 ==
  <<<<sym_annotation, STATE_ID(31)>>,
    <<sym_node_declaration, STATE_ID(31)>>,
    <<sym_node_kind, STATE_ID(60)>>,
    <<sym_node_body_item, STATE_ID(12)>>,
    <<sym_property, STATE_ID(31)>>,
    <<sym_property_name, STATE_ID(77)>>,
    <<sym_anim_block, STATE_ID(31)>>,
    <<sym_style_block, STATE_ID(31)>>,
    <<anon_sym_style, ACTIONS_ID(11)>>,
    <<aux_sym_node_declaration_repeat1, STATE_ID(12)>>,
    <<sym_comment, ACTIONS_ID(7)>>,
    <<anon_sym_POUND_POUND, ACTIONS_ID(53)>>,
    <<anon_sym_RBRACE, ACTIONS_ID(55)>>,
    <<anon_sym_group, ACTIONS_ID(13)>>,
    <<anon_sym_rect, ACTIONS_ID(13)>>,
    <<anon_sym_ellipse, ACTIONS_ID(13)>>,
    <<anon_sym_path, ACTIONS_ID(13)>>,
    <<anon_sym_text, ACTIONS_ID(13)>>,
    <<anon_sym_w, ACTIONS_ID(57)>>,
    <<anon_sym_h, ACTIONS_ID(57)>>,
    <<anon_sym_width, ACTIONS_ID(59)>>,
    <<anon_sym_height, ACTIONS_ID(59)>>,
    <<anon_sym_fill, ACTIONS_ID(59)>>,
    <<anon_sym_stroke, ACTIONS_ID(59)>>,
    <<anon_sym_corner, ACTIONS_ID(59)>>,
    <<anon_sym_opacity, ACTIONS_ID(59)>>,
    <<anon_sym_font, ACTIONS_ID(59)>>,
    <<anon_sym_bg, ACTIONS_ID(59)>>,
    <<anon_sym_use, ACTIONS_ID(59)>>,
    <<anon_sym_layout, ACTIONS_ID(59)>>,
    <<anon_sym_shadow, ACTIONS_ID(59)>>,
    <<anon_sym_scale, ACTIONS_ID(59)>>,
    <<anon_sym_rotate, ACTIONS_ID(59)>>,
    <<anon_sym_translate, ACTIONS_ID(59)>>,
    <<anon_sym_center_in, ACTIONS_ID(59)>>,
    <<anon_sym_offset, ACTIONS_ID(59)>>,
    <<anon_sym_ease, ACTIONS_ID(59)>>,
    <<anon_sym_duration, ACTIONS_ID(59)>>,
    <<anon_sym_anim, ACTIONS_ID(61)>>>>

ts_parse_table_5 ==
  <<<<sym_annotation, STATE_ID(31)>>,
    <<sym_node_declaration, STATE_ID(31)>>,
    <<sym_node_kind, STATE_ID(60)>>,
    <<sym_node_body_item, STATE_ID(12)>>,
    <<sym_property, STATE_ID(31)>>,
    <<sym_property_name, STATE_ID(77)>>,
    <<sym_anim_block, STATE_ID(31)>>,
    <<aux_sym_node_declaration_repeat1, STATE_ID(12)>>,
    <<sym_comment, ACTIONS_ID(7)>>,
    <<anon_sym_POUND_POUND, ACTIONS_ID(53)>>,
    <<anon_sym_RBRACE, ACTIONS_ID(55)>>,
    <<anon_sym_group, ACTIONS_ID(13)>>,
    <<anon_sym_rect, ACTIONS_ID(13)>>,
    <<anon_sym_ellipse, ACTIONS_ID(13)>>,
    <<anon_sym_path, ACTIONS_ID(13)>>,
    <<anon_sym_text, ACTIONS_ID(13)>>,
    <<anon_sym_w, ACTIONS_ID(57)>>,
    <<anon_sym_h, ACTIONS_ID(57)>>,
    <<anon_sym_width, ACTIONS_ID(59)>>,
    <<anon_sym_height, ACTIONS_ID(59)>>,
    <<anon_sym_fill, ACTIONS_ID(59)>>,
    <<anon_sym_stroke, ACTIONS_ID(59)>>,
    <<anon_sym_corner, ACTIONS_ID(59)>>,
    <<anon_sym_opacity, ACTIONS_ID(59)>>,
    <<anon_sym_font, ACTIONS_ID(59)>>,
    <<anon_sym_bg, ACTIONS_ID(59)>>,
    <<anon_sym_use, ACTIONS_ID(59)>>,
    <<anon_sym_layout, ACTIONS_ID(59)>>,
    <<anon_sym_shadow, ACTIONS_ID(59)>>,
    <<anon_sym_scale, ACTIONS_ID(59)>>,
    <<anon_sym_rotate, ACTIONS_ID(59)>>,
    <<anon_sym_translate, ACTIONS_ID(59)>>,
    <<anon_sym_center_in, ACTIONS_ID(59)>>,
    <<anon_sym_offset, ACTIONS_ID(59)>>,
    <<anon_sym_ease, ACTIONS_ID(59)>>,
    <<anon_sym_duration, ACTIONS_ID(59)>>,
    <<anon_sym_anim, ACTIONS_ID(61)>>>>

ts_parse_table_6 ==
  <<<<sym_annotation, STATE_ID(31)>>,
    <<sym_node_declaration, STATE_ID(31)>>,
    <<sym_node_kind, STATE_ID(60)>>,
    <<sym_node_body_item, STATE_ID(6)>>,
    <<sym_property, STATE_ID(31)>>,
    <<sym_property_name, STATE_ID(77)>>,
    <<sym_anim_block, STATE_ID(31)>>,
    <<aux_sym_node_declaration_repeat1, STATE_ID(6)>>,
    <<sym_comment, ACTIONS_ID(7)>>,
    <<anon_sym_POUND_POUND, ACTIONS_ID(63)>>,
    <<anon_sym_RBRACE, ACTIONS_ID(66)>>,
    <<anon_sym_group, ACTIONS_ID(68)>>,
    <<anon_sym_rect, ACTIONS_ID(68)>>,
    <<anon_sym_ellipse, ACTIONS_ID(68)>>,
    <<anon_sym_path, ACTIONS_ID(68)>>,
    <<anon_sym_text, ACTIONS_ID(68)>>,
    <<anon_sym_w, ACTIONS_ID(71)>>,
    <<anon_sym_h, ACTIONS_ID(71)>>,
    <<anon_sym_width, ACTIONS_ID(74)>>,
    <<anon_sym_height, ACTIONS_ID(74)>>,
    <<anon_sym_fill, ACTIONS_ID(74)>>,
    <<anon_sym_stroke, ACTIONS_ID(74)>>,
    <<anon_sym_corner, ACTIONS_ID(74)>>,
    <<anon_sym_opacity, ACTIONS_ID(74)>>,
    <<anon_sym_font, ACTIONS_ID(74)>>,
    <<anon_sym_bg, ACTIONS_ID(74)>>,
    <<anon_sym_use, ACTIONS_ID(74)>>,
    <<anon_sym_layout, ACTIONS_ID(74)>>,
    <<anon_sym_shadow, ACTIONS_ID(74)>>,
    <<anon_sym_scale, ACTIONS_ID(74)>>,
    <<anon_sym_rotate, ACTIONS_ID(74)>>,
    <<anon_sym_translate, ACTIONS_ID(74)>>,
    <<anon_sym_center_in, ACTIONS_ID(74)>>,
    <<anon_sym_offset, ACTIONS_ID(74)>>,
    <<anon_sym_ease, ACTIONS_ID(74)>>,
    <<anon_sym_duration, ACTIONS_ID(74)>>,
    <<anon_sym_anim, ACTIONS_ID(77)>>>>

ts_parse_table_7 ==
  <<<<sym_annotation, STATE_ID(31)>>,
    <<sym_node_declaration, STATE_ID(31)>>,
    <<sym_node_kind, STATE_ID(60)>>,
    <<sym_node_body_item, STATE_ID(6)>>,
    <<sym_property, STATE_ID(31)>>,
    <<sym_property_name, STATE_ID(77)>>,
    <<sym_anim_block, STATE_ID(31)>>,
    <<aux_sym_node_declaration_repeat1, STATE_ID(6)>>,
    <<sym_comment, ACTIONS_ID(7)>>,
    <<anon_sym_POUND_POUND, ACTIONS_ID(53)>>,
    <<anon_sym_RBRACE, ACTIONS_ID(80)>>,
    <<anon_sym_group, ACTIONS_ID(13)>>,
    <<anon_sym_rect, ACTIONS_ID(13)>>,
    <<anon_sym_ellipse, ACTIONS_ID(13)>>,
    <<anon_sym_path, ACTIONS_ID(13)>>,
    <<anon_sym_text, ACTIONS_ID(13)>>,
    <<anon_sym_w, ACTIONS_ID(57)>>,
    <<anon_sym_h, ACTIONS_ID(57)>>,
    <<anon_sym_width, ACTIONS_ID(59)>>,
    <<anon_sym_height, ACTIONS_ID(59)>>,
    <<anon_sym_fill, ACTIONS_ID(59)>>,
    <<anon_sym_stroke, ACTIONS_ID(59)>>,
    <<anon_sym_corner, ACTIONS_ID(59)>>,
    <<anon_sym_opacity, ACTIONS_ID(59)>>,
    <<anon_sym_font, ACTIONS_ID(59)>>,
    <<anon_sym_bg, ACTIONS_ID(59)>>,
    <<anon_sym_use, ACTIONS_ID(59)>>,
    <<anon_sym_layout, ACTIONS_ID(59)>>,
    <<anon_sym_shadow, ACTIONS_ID(59)>>,
    <<anon_sym_scale, ACTIONS_ID(59)>>,
    <<anon_sym_rotate, ACTIONS_ID(59)>>,
    <<anon_sym_translate, ACTIONS_ID(59)>>,
    <<anon_sym_center_in, ACTIONS_ID(59)>>,
    <<anon_sym_offset, ACTIONS_ID(59)>>,
    <<anon_sym_ease, ACTIONS_ID(59)>>,
    <<anon_sym_duration, ACTIONS_ID(59)>>,
    <<anon_sym_anim, ACTIONS_ID(61)>>>>

ts_parse_table_8 ==
  <<<<sym_annotation, STATE_ID(31)>>,
    <<sym_node_declaration, STATE_ID(31)>>,
    <<sym_node_kind, STATE_ID(60)>>,
    <<sym_node_body_item, STATE_ID(13)>>,
    <<sym_property, STATE_ID(31)>>,
    <<sym_property_name, STATE_ID(77)>>,
    <<sym_anim_block, STATE_ID(31)>>,
    <<aux_sym_node_declaration_repeat1, STATE_ID(13)>>,
    <<sym_comment, ACTIONS_ID(7)>>,
    <<anon_sym_POUND_POUND, ACTIONS_ID(53)>>,
    <<anon_sym_RBRACE, ACTIONS_ID(82)>>,
    <<anon_sym_group, ACTIONS_ID(13)>>,
    <<anon_sym_rect, ACTIONS_ID(13)>>,
    <<anon_sym_ellipse, ACTIONS_ID(13)>>,
    <<anon_sym_path, ACTIONS_ID(13)>>,
    <<anon_sym_text, ACTIONS_ID(13)>>,
    <<anon_sym_w, ACTIONS_ID(57)>>,
    <<anon_sym_h, ACTIONS_ID(57)>>,
    <<anon_sym_width, ACTIONS_ID(59)>>,
    <<anon_sym_height, ACTIONS_ID(59)>>,
    <<anon_sym_fill, ACTIONS_ID(59)>>,
    <<anon_sym_stroke, ACTIONS_ID(59)>>,
    <<anon_sym_corner, ACTIONS_ID(59)>>,
    <<anon_sym_opacity, ACTIONS_ID(59)>>,
    <<anon_sym_font, ACTIONS_ID(59)>>,
    <<anon_sym_bg, ACTIONS_ID(59)>>,
    <<anon_sym_use, ACTIONS_ID(59)>>,
    <<anon_sym_layout, ACTIONS_ID(59)>>,
    <<anon_sym_shadow, ACTIONS_ID(59)>>,
    <<anon_sym_scale, ACTIONS_ID(59)>>,
    <<anon_sym_rotate, ACTIONS_ID(59)>>,
    <<anon_sym_translate, ACTIONS_ID(59)>>,
    <<anon_sym_center_in, ACTIONS_ID(59)>>,
    <<anon_sym_offset, ACTIONS_ID(59)>>,
    <<anon_sym_ease, ACTIONS_ID(59)>>,
    <<anon_sym_duration, ACTIONS_ID(59)>>,
    <<anon_sym_anim, ACTIONS_ID(61)>>>>

\* C7 mutant: the state after the `{` of a node body does not take `}`
ts_parse_table_9_C7 ==
  <<<<sym_annotation, STATE_ID(31)>>,
    <<sym_node_declaration, STATE_ID(31)>>,
    <<sym_node_kind, STATE_ID(60)>>,
    <<sym_node_body_item, STATE_ID(7)>>,
    <<sym_property, STATE_ID(31)>>,
    <<sym_property_name, STATE_ID(77)>>,
    <<sym_anim_block, STATE_ID(31)>>,
    <<aux_sym_node_declaration_repeat1, STATE_ID(7)>>,
    <<sym_comment, ACTIONS_ID(7)>>,
    <<anon_sym_POUND_POUND, ACTIONS_ID(53)>>,
    <<anon_sym_group, ACTIONS_ID(13)>>,
    <<anon_sym_rect, ACTIONS_ID(13)>>,
    <<anon_sym_ellipse, ACTIONS_ID(13)>>,
    <<anon_sym_path, ACTIONS_ID(13)>>,
    <<anon_sym_text, ACTIONS_ID(13)>>,
    <<anon_sym_w, ACTIONS_ID(57)>>,
    <<anon_sym_h, ACTIONS_ID(57)>>,
    <<anon_sym_width, ACTIONS_ID(59)>>,
    <<anon_sym_height, ACTIONS_ID(59)>>,
    <<anon_sym_fill, ACTIONS_ID(59)>>,
    <<anon_sym_stroke, ACTIONS_ID(59)>>,
    <<anon_sym_corner, ACTIONS_ID(59)>>,
    <<anon_sym_opacity, ACTIONS_ID(59)>>,
    <<anon_sym_font, ACTIONS_ID(59)>>,
    <<anon_sym_bg, ACTIONS_ID(59)>>,
    <<anon_sym_use, ACTIONS_ID(59)>>,
    <<anon_sym_layout, ACTIONS_ID(59)>>,
    <<anon_sym_shadow, ACTIONS_ID(59)>>,
    <<anon_sym_scale, ACTIONS_ID(59)>>,
    <<anon_sym_rotate, ACTIONS_ID(59)>>,
    <<anon_sym_translate, ACTIONS_ID(59)>>,
    <<anon_sym_center_in, ACTIONS_ID(59)>>,
    <<anon_sym_offset, ACTIONS_ID(59)>>,
    <<anon_sym_ease, ACTIONS_ID(59)>>,
    <<anon_sym_duration, ACTIONS_ID(59)>>,
    <<anon_sym_anim, ACTIONS_ID(61)>>>>

ts_parse_table_9 ==
  <<<<sym_annotation, STATE_ID(31)>>,
    <<sym_node_declaration, STATE_ID(31)>>,
    <<sym_node_kind, STATE_ID(60)>>,
    <<sym_node_body_item, STATE_ID(7)>>,
    <<sym_property, STATE_ID(31)>>,
    <<sym_property_name, STATE_ID(77)>>,
    <<sym_anim_block, STATE_ID(31)>>,
    <<aux_sym_node_declaration_repeat1, STATE_ID(7)>>,
    <<sym_comment, ACTIONS_ID(7)>>,
    <<anon_sym_POUND_POUND, ACTIONS_ID(53)>>,
    <<anon_sym_RBRACE, ACTIONS_ID(84)>>,
    <<anon_sym_group, ACTIONS_ID(13)>>,
    <<anon_sym_rect, ACTIONS_ID(13)>>,
    <<anon_sym_ellipse, ACTIONS_ID(13)>>,
    <<anon_sym_path, ACTIONS_ID(13)>>,
    <<anon_sym_text, ACTIONS_ID(13)>>,
    <<anon_sym_w, ACTIONS_ID(57)>>,
    <<anon_sym_h, ACTIONS_ID(57)>>,
    <<anon_sym_width, ACTIONS_ID(59)>>,
    <<anon_sym_height, ACTIONS_ID(59)>>,
    <<anon_sym_fill, ACTIONS_ID(59)>>,
    <<anon_sym_stroke, ACTIONS_ID(59)>>,
    <<anon_sym_corner, ACTIONS_ID(59)>>,
    <<anon_sym_opacity, ACTIONS_ID(59)>>,
    <<anon_sym_font, ACTIONS_ID(59)>>,
    <<anon_sym_bg, ACTIONS_ID(59)>>,
    <<anon_sym_use, ACTIONS_ID(59)>>,
    <<anon_sym_layout, ACTIONS_ID(59)>>,
    <<anon_sym_shadow, ACTIONS_ID(59)>>,
    <<anon_sym_scale, ACTIONS_ID(59)>>,
    <<anon_sym_rotate, ACTIONS_ID(59)>>,
    <<anon_sym_translate, ACTIONS_ID(59)>>,
    <<anon_sym_center_in, ACTIONS_ID(59)>>,
    <<anon_sym_offset, ACTIONS_ID(59)>>,
    <<anon_sym_ease, ACTIONS_ID(59)>>,
    <<anon_sym_duration, ACTIONS_ID(59)>>,
    <<anon_sym_anim, ACTIONS_ID(61)>>>>

ts_parse_table_10 ==
  <<<<sym_annotation, STATE_ID(31)>>,
    <<sym_node_declaration, STATE_ID(31)>>,
    <<sym_node_kind, STATE_ID(60)>>,
    <<sym_node_body_item, STATE_ID(6)>>,
    <<sym_property, STATE_ID(31)>>,
    <<sym_property_name, STATE_ID(77)>>,
    <<sym_anim_block, STATE_ID(31)>>,
    <<aux_sym_node_declaration_repeat1, STATE_ID(6)>>,
    <<sym_comment, ACTIONS_ID(7)>>,
    <<anon_sym_POUND_POUND, ACTIONS_ID(53)>>,
    <<anon_sym_RBRACE, ACTIONS_ID(86)>>,
    <<anon_sym_group, ACTIONS_ID(13)>>,
    <<anon_sym_rect, ACTIONS_ID(13)>>,
    <<anon_sym_ellipse, ACTIONS_ID(13)>>,
    <<anon_sym_path, ACTIONS_ID(13)>>,
    <<anon_sym_text, ACTIONS_ID(13)>>,
    <<anon_sym_w, ACTIONS_ID(57)>>,
    <<anon_sym_h, ACTIONS_ID(57)>>,
    <<anon_sym_width, ACTIONS_ID(59)>>,
    <<anon_sym_height, ACTIONS_ID(59)>>,
    <<anon_sym_fill, ACTIONS_ID(59)>>,
    <<anon_sym_stroke, ACTIONS_ID(59)>>,
    <<anon_sym_corner, ACTIONS_ID(59)>>,
    <<anon_sym_opacity, ACTIONS_ID(59)>>,
    <<anon_sym_font, ACTIONS_ID(59)>>,
    <<anon_sym_bg, ACTIONS_ID(59)>>,
    <<anon_sym_use, ACTIONS_ID(59)>>,
    <<anon_sym_layout, ACTIONS_ID(59)>>,
    <<anon_sym_shadow, ACTIONS_ID(59)>>,
    <<anon_sym_scale, ACTIONS_ID(59)>>,
    <<anon_sym_rotate, ACTIONS_ID(59)>>,
    <<anon_sym_translate, ACTIONS_ID(59)>>,
    <<anon_sym_center_in, ACTIONS_ID(59)>>,
    <<anon_sym_offset, ACTIONS_ID(59)>>,
    <<anon_sym_ease, ACTIONS_ID(59)>>,
    <<anon_sym_duration, ACTIONS_ID(59)>>,
    <<anon_sym_anim, ACTIONS_ID(61)>>>>

ts_parse_table_11 ==
  <<<<sym_annotation, STATE_ID(31)>>,
    <<sym_node_declaration, STATE_ID(31)>>,
    <<sym_node_kind, STATE_ID(60)>>,
    <<sym_node_body_item, STATE_ID(10)>>,
    <<sym_property, STATE_ID(31)>>,
    <<sym_property_name, STATE_ID(77)>>,
    <<sym_anim_block, STATE_ID(31)>>,
    <<aux_sym_node_declaration_repeat1, STATE_ID(10)>>,
    <<sym_comment, ACTIONS_ID(7)>>,
    <<anon_sym_POUND_POUND, ACTIONS_ID(53)>>,
    <<anon_sym_RBRACE, ACTIONS_ID(88)>>,
    <<anon_sym_group, ACTIONS_ID(13)>>,
    <<anon_sym_rect, ACTIONS_ID(13)>>,
    <<anon_sym_ellipse, ACTIONS_ID(13)>>,
    <<anon_sym_path, ACTIONS_ID(13)>>,
    <<anon_sym_text, ACTIONS_ID(13)>>,
    <<anon_sym_w, ACTIONS_ID(57)>>,
    <<anon_sym_h, ACTIONS_ID(57)>>,
    <<anon_sym_width, ACTIONS_ID(59)>>,
    <<anon_sym_height, ACTIONS_ID(59)>>,
    <<anon_sym_fill, ACTIONS_ID(59)>>,
    <<anon_sym_stroke, ACTIONS_ID(59)>>,
    <<anon_sym_corner, ACTIONS_ID(59)>>,
    <<anon_sym_opacity, ACTIONS_ID(59)>>,
    <<anon_sym_font, ACTIONS_ID(59)>>,
    <<anon_sym_bg, ACTIONS_ID(59)>>,
    <<anon_sym_use, ACTIONS_ID(59)>>,
    <<anon_sym_layout, ACTIONS_ID(59)>>,
    <<anon_sym_shadow, ACTIONS_ID(59)>>,
    <<anon_sym_scale, ACTIONS_ID(59)>>,
    <<anon_sym_rotate, ACTIONS_ID(59)>>,
    <<anon_sym_translate, ACTIONS_ID(59)>>,
    <<anon_sym_center_in, ACTIONS_ID(59)>>,
    <<anon_sym_offset, ACTIONS_ID(59)>>,
    <<anon_sym_ease, ACTIONS_ID(59)>>,
    <<anon_sym_duration, ACTIONS_ID(59)>>,
    <<anon_sym_anim, ACTIONS_ID(61)>>>>

ts_parse_table_12 ==
  <<<<sym_annotation, STATE_ID(31)>>,
    <<sym_node_declaration, STATE_ID(31)>>,
    <<sym_node_kind, STATE_ID(60)>>,
    <<sym_node_body_item, STATE_ID(6)>>,
    <<sym_property, STATE_ID(31)>>,
    <<sym_property_name, STATE_ID(77)>>,
    <<sym_anim_block, STATE_ID(31)>>,
    <<aux_sym_node_declaration_repeat1, STATE_ID(6)>>,
    <<sym_comment, ACTIONS_ID(7)>>,
    <<anon_sym_POUND_POUND, ACTIONS_ID(53)>>,
    <<anon_sym_RBRACE, ACTIONS_ID(90)>>,
    <<anon_sym_group, ACTIONS_ID(13)>>,
    <<anon_sym_rect, ACTIONS_ID(13)>>,
    <<anon_sym_ellipse, ACTIONS_ID(13)>>,
    <<anon_sym_path, ACTIONS_ID(13)>>,
    <<anon_sym_text, ACTIONS_ID(13)>>,
    <<anon_sym_w, ACTIONS_ID(57)>>,
    <<anon_sym_h, ACTIONS_ID(57)>>,
    <<anon_sym_width, ACTIONS_ID(59)>>,
    <<anon_sym_height, ACTIONS_ID(59)>>,
    <<anon_sym_fill, ACTIONS_ID(59)>>,
    <<anon_sym_stroke, ACTIONS_ID(59)>>,
    <<anon_sym_corner, ACTIONS_ID(59)>>,
    <<anon_sym_opacity, ACTIONS_ID(59)>>,
    <<anon_sym_font, ACTIONS_ID(59)>>,
    <<anon_sym_bg, ACTIONS_ID(59)>>,
    <<anon_sym_use, ACTIONS_ID(59)>>,
    <<anon_sym_layout, ACTIONS_ID(59)>>,
    <<anon_sym_shadow, ACTIONS_ID(59)>>,
    <<anon_sym_scale, ACTIONS_ID(59)>>,
    <<anon_sym_rotate, ACTIONS_ID(59)>>,
    <<anon_sym_translate, ACTIONS_ID(59)>>,
    <<anon_sym_center_in, ACTIONS_ID(59)>>,
    <<anon_sym_offset, ACTIONS_ID(59)>>,
    <<anon_sym_ease, ACTIONS_ID(59)>>,
    <<anon_sym_duration, ACTIONS_ID(59)>>,
    <<anon_sym_anim, ACTIONS_ID(61)>>>>

ts_parse_table_13 ==
  <<<<sym_annotation, STATE_ID(31)>>,
    <<sym_node_declaration, STATE_ID(31)>>,
    <<sym_node_kind, STATE_ID(60)>>,
    <<sym_node_body_item, STATE_ID(6)>>,
    <<sym_property, STATE_ID(31)>>,
    <<sym_property_name, STATE_ID(77)>>,
    <<sym_anim_block, STATE_ID(31)>>,
    <<aux_sym_node_declaration_repeat1, STATE_ID(6)>>,
    <<sym_comment, ACTIONS_ID(7)>>,
    <<anon_sym_POUND_POUND, ACTIONS_ID(53)>>,
    <<anon_sym_RBRACE, ACTIONS_ID(92)>>,
    <<anon_sym_group, ACTIONS_ID(13)>>,
    <<anon_sym_rect, ACTIONS_ID(13)>>,
    <<anon_sym_ellipse, ACTIONS_ID(13)>>,
    <<anon_sym_path, ACTIONS_ID(13)>>,
    <<anon_sym_text, ACTIONS_ID(13)>>,
    <<anon_sym_w, ACTIONS_ID(57)>>,
    <<anon_sym_h, ACTIONS_ID(57)>>,
    <<anon_sym_width, ACTIONS_ID(59)>>,
    <<anon_sym_height, ACTIONS_ID(59)>>,
    <<anon_sym_fill, ACTIONS_ID(59)>>,
    <<anon_sym_stroke, ACTIONS_ID(59)>>,
    <<anon_sym_corner, ACTIONS_ID(59)>>,
    <<anon_sym_opacity, ACTIONS_ID(59)>>,
    <<anon_sym_font, ACTIONS_ID(59)>>,
    <<anon_sym_bg, ACTIONS_ID(59)>>,
    <<anon_sym_use, ACTIONS_ID(59)>>,
    <<anon_sym_layout, ACTIONS_ID(59)>>,
    <<anon_sym_shadow, ACTIONS_ID(59)>>,
    <<anon_sym_scale, ACTIONS_ID(59)>>,
    <<anon_sym_rotate, ACTIONS_ID(59)>>,
    <<anon_sym_translate, ACTIONS_ID(59)>>,
    <<anon_sym_center_in, ACTIONS_ID(59)>>,
    <<anon_sym_offset, ACTIONS_ID(59)>>,
    <<anon_sym_ease, ACTIONS_ID(59)>>,
    <<anon_sym_duration, ACTIONS_ID(59)>>,
    <<anon_sym_anim, ACTIONS_ID(61)>>>>

ts_parse_table_14 ==
  <<<<sym_comment, ACTIONS_ID(3)>>,
    <<anon_sym_POUND_POUND, ACTIONS_ID(94)>>,
    <<anon_sym_RBRACE, ACTIONS_ID(94)>>,
    <<anon_sym_group, ACTIONS_ID(96)>>,
    <<anon_sym_rect, ACTIONS_ID(96)>>,
    <<anon_sym_ellipse, ACTIONS_ID(96)>>,
    <<anon_sym_path, ACTIONS_ID(96)>>,
    <<anon_sym_text, ACTIONS_ID(96)>>,
    <<anon_sym_w, ACTIONS_ID(96)>>,
    <<anon_sym_h, ACTIONS_ID(96)>>,
    <<anon_sym_width, ACTIONS_ID(96)>>,
    <<anon_sym_height, ACTIONS_ID(96)>>,
    <<anon_sym_fill, ACTIONS_ID(96)>>,
    <<anon_sym_stroke, ACTIONS_ID(96)>>,
    <<anon_sym_corner, ACTIONS_ID(96)>>,
    <<anon_sym_opacity, ACTIONS_ID(96)>>,
    <<anon_sym_font, ACTIONS_ID(96)>>,
    <<anon_sym_bg, ACTIONS_ID(96)>>,
    <<anon_sym_use, ACTIONS_ID(96)>>,
    <<anon_sym_layout, ACTIONS_ID(96)>>,
    <<anon_sym_shadow, ACTIONS_ID(96)>>,
    <<anon_sym_scale, ACTIONS_ID(96)>>,
    <<anon_sym_rotate, ACTIONS_ID(96)>>,
    <<anon_sym_translate, ACTIONS_ID(96)>>,
    <<anon_sym_center_in, ACTIONS_ID(96)>>,
    <<anon_sym_offset, ACTIONS_ID(96)>>,
    <<anon_sym_ease, ACTIONS_ID(96)>>,
    <<anon_sym_duration, ACTIONS_ID(96)>>,
    <<anon_sym_EQ, ACTIONS_ID(98)>>,
    <<anon_sym_anim, ACTIONS_ID(96)>>,
    <<anon_sym_AT, ACTIONS_ID(94)>>,
    <<sym_identifier, ACTIONS_ID(96)>>,
    <<sym_number, ACTIONS_ID(94)>>,
    <<sym_hex_color, ACTIONS_ID(94)>>,
    <<anon_sym_DQUOTE, ACTIONS_ID(94)>>>>

ts_parse_table_15 ==
  <<<<sym_comment, ACTIONS_ID(3)>>,
    <<anon_sym_POUND_POUND, ACTIONS_ID(100)>>,
    <<anon_sym_RBRACE, ACTIONS_ID(100)>>,
    <<anon_sym_group, ACTIONS_ID(102)>>,
    <<anon_sym_rect, ACTIONS_ID(102)>>,
    <<anon_sym_ellipse, ACTIONS_ID(102)>>,
    <<anon_sym_path, ACTIONS_ID(102)>>,
    <<anon_sym_text, ACTIONS_ID(102)>>,
    <<anon_sym_w, ACTIONS_ID(102)>>,
    <<anon_sym_h, ACTIONS_ID(102)>>,
    <<anon_sym_width, ACTIONS_ID(102)>>,
    <<anon_sym_height, ACTIONS_ID(102)>>,
    <<anon_sym_fill, ACTIONS_ID(102)>>,
    <<anon_sym_stroke, ACTIONS_ID(102)>>,
    <<anon_sym_corner, ACTIONS_ID(102)>>,
    <<anon_sym_opacity, ACTIONS_ID(102)>>,
    <<anon_sym_font, ACTIONS_ID(102)>>,
    <<anon_sym_bg, ACTIONS_ID(102)>>,
    <<anon_sym_use, ACTIONS_ID(102)>>,
    <<anon_sym_layout, ACTIONS_ID(102)>>,
    <<anon_sym_shadow, ACTIONS_ID(102)>>,
    <<anon_sym_scale, ACTIONS_ID(102)>>,
    <<anon_sym_rotate, ACTIONS_ID(102)>>,
    <<anon_sym_translate, ACTIONS_ID(102)>>,
    <<anon_sym_center_in, ACTIONS_ID(102)>>,
    <<anon_sym_offset, ACTIONS_ID(102)>>,
    <<anon_sym_ease, ACTIONS_ID(102)>>,
    <<anon_sym_duration, ACTIONS_ID(102)>>,
    <<anon_sym_anim, ACTIONS_ID(102)>>,
    <<anon_sym_AT, ACTIONS_ID(100)>>,
    <<sym_identifier, ACTIONS_ID(102)>>,
    <<sym_number, ACTIONS_ID(100)>>,
    <<sym_hex_color, ACTIONS_ID(100)>>,
    <<anon_sym_DQUOTE, ACTIONS_ID(100)>>>>

ts_parse_table_16 ==
  <<<<sym_comment, ACTIONS_ID(3)>>,
    <<anon_sym_POUND_POUND, ACTIONS_ID(104)>>,
    <<anon_sym_RBRACE, ACTIONS_ID(104)>>,
    <<anon_sym_group, ACTIONS_ID(106)>>,
    <<anon_sym_rect, ACTIONS_ID(106)>>,
    <<anon_sym_ellipse, ACTIONS_ID(106)>>,
    <<anon_sym_path, ACTIONS_ID(106)>>,
    <<anon_sym_text, ACTIONS_ID(106)>>,
    <<anon_sym_w, ACTIONS_ID(106)>>,
    <<anon_sym_h, ACTIONS_ID(106)>>,
    <<anon_sym_width, ACTIONS_ID(106)>>,
    <<anon_sym_height, ACTIONS_ID(106)>>,
    <<anon_sym_fill, ACTIONS_ID(106)>>,
    <<anon_sym_stroke, ACTIONS_ID(106)>>,
    <<anon_sym_corner, ACTIONS_ID(106)>>,
    <<anon_sym_opacity, ACTIONS_ID(106)>>,
    <<anon_sym_font, ACTIONS_ID(106)>>,
    <<anon_sym_bg, ACTIONS_ID(106)>>,
    <<anon_sym_use, ACTIONS_ID(106)>>,
    <<anon_sym_layout, ACTIONS_ID(106)>>,
    <<anon_sym_shadow, ACTIONS_ID(106)>>,
    <<anon_sym_scale, ACTIONS_ID(106)>>,
    <<anon_sym_rotate, ACTIONS_ID(106)>>,
    <<anon_sym_translate, ACTIONS_ID(106)>>,
    <<anon_sym_center_in, ACTIONS_ID(106)>>,
    <<anon_sym_offset, ACTIONS_ID(106)>>,
    <<anon_sym_ease, ACTIONS_ID(106)>>,
    <<anon_sym_duration, ACTIONS_ID(106)>>,
    <<anon_sym_anim, ACTIONS_ID(106)>>,
    <<anon_sym_AT, ACTIONS_ID(104)>>,
    <<sym_identifier, ACTIONS_ID(106)>>,
    <<sym_number, ACTIONS_ID(104)>>,
    <<sym_hex_color, ACTIONS_ID(104)>>,
    <<anon_sym_DQUOTE, ACTIONS_ID(104)>>>>

ts_parse_table_17 ==
  <<<<sym_comment, ACTIONS_ID(3)>>,
    <<anon_sym_POUND_POUND, ACTIONS_ID(108)>>,
    <<anon_sym_RBRACE, ACTIONS_ID(108)>>,
    <<anon_sym_group, ACTIONS_ID(110)>>,
    <<anon_sym_rect, ACTIONS_ID(110)>>,
    <<anon_sym_ellipse, ACTIONS_ID(110)>>,
    <<anon_sym_path, ACTIONS_ID(110)>>,
    <<anon_sym_text, ACTIONS_ID(110)>>,
    <<anon_sym_w, ACTIONS_ID(110)>>,
    <<anon_sym_h, ACTIONS_ID(110)>>,
    <<anon_sym_width, ACTIONS_ID(110)>>,
    <<anon_sym_height, ACTIONS_ID(110)>>,
    <<anon_sym_fill, ACTIONS_ID(110)>>,
    <<anon_sym_stroke, ACTIONS_ID(110)>>,
    <<anon_sym_corner, ACTIONS_ID(110)>>,
    <<anon_sym_opacity, ACTIONS_ID(110)>>,
    <<anon_sym_font, ACTIONS_ID(110)>>,
    <<anon_sym_bg, ACTIONS_ID(110)>>,
    <<anon_sym_use, ACTIONS_ID(110)>>,
    <<anon_sym_layout, ACTIONS_ID(110)>>,
    <<anon_sym_shadow, ACTIONS_ID(110)>>,
    <<anon_sym_scale, ACTIONS_ID(110)>>,
    <<anon_sym_rotate, ACTIONS_ID(110)>>,
    <<anon_sym_translate, ACTIONS_ID(110)>>,
    <<anon_sym_center_in, ACTIONS_ID(110)>>,
    <<anon_sym_offset, ACTIONS_ID(110)>>,
    <<anon_sym_ease, ACTIONS_ID(110)>>,
    <<anon_sym_duration, ACTIONS_ID(110)>>,
    <<anon_sym_anim, ACTIONS_ID(110)>>,
    <<anon_sym_AT, ACTIONS_ID(108)>>,
    <<sym_identifier, ACTIONS_ID(110)>>,
    <<sym_number, ACTIONS_ID(108)>>,
    <<sym_hex_color, ACTIONS_ID(108)>>,
    <<anon_sym_DQUOTE, ACTIONS_ID(108)>>>>

ts_parse_table ==
  <<ts_parse_table_0, ts_parse_table_1, ts_parse_table_2, ts_parse_table_3,
    ts_parse_table_4, ts_parse_table_5, ts_parse_table_6, ts_parse_table_7,
    ts_parse_table_8, ts_parse_table_9, ts_parse_table_10, ts_parse_table_11,
    ts_parse_table_12, ts_parse_table_13, ts_parse_table_14, ts_parse_table_15,
    ts_parse_table_16, ts_parse_table_17>>

\* ---- ts_small_parse_table: offset :> groups, each group <<ACTIONS_ID(i) or STATE_ID(s), symbols>>
ts_small_parse_table_18_25 ==
  (0 :> \* state 18
     <<<<ACTIONS_ID(7), <<sym_comment>>>>,
       <<ACTIONS_ID(102), <<anon_sym_w, anon_sym_h>>>>,
       <<ACTIONS_ID(100), <<ts_builtin_sym_end, anon_sym_POUND_POUND, anon_sym_style, anon_sym_LBRACE, anon_sym_RBRACE, anon_sym_group, anon_sym_rect, anon_sym_ellipse, anon_sym_path, anon_sym_text, anon_sym_width, anon_sym_height, anon_sym_fill, anon_sym_stroke, anon_sym_corner, anon_sym_opacity, anon_sym_font, anon_sym_bg, anon_sym_use, anon_sym_layout, anon_sym_shadow, anon_sym_scale, anon_sym_rotate, anon_sym_translate, anon_sym_center_in, anon_sym_offset, anon_sym_ease, anon_sym_duration, anon_sym_anim, anon_sym_AT>>>>>>) @@
  (40 :> \* state 19
     <<<<ACTIONS_ID(3), <<sym_comment>>>>,
       <<ACTIONS_ID(29), <<anon_sym_RBRACE>>>>,
       <<ACTIONS_ID(112), <<anon_sym_AT>>>>,
       <<ACTIONS_ID(115), <<sym_identifier>>>>,
       <<ACTIONS_ID(121), <<anon_sym_DQUOTE>>>>,
       <<ACTIONS_ID(118), <<sym_number, sym_hex_color>>>>,
       <<STATE_ID(19), <<sym__value_item, sym_key_value_pair, sym_node_id, sym_string, aux_sym_property_repeat1>>>>,
       <<ACTIONS_ID(31), <<anon_sym_w, anon_sym_h, anon_sym_width, anon_sym_height, anon_sym_fill, anon_sym_stroke, anon_sym_corner, anon_sym_opacity, anon_sym_font, anon_sym_bg, anon_sym_use, anon_sym_layout, anon_sym_shadow, anon_sym_scale, anon_sym_rotate, anon_sym_translate, anon_sym_center_in, anon_sym_offset, anon_sym_ease, anon_sym_duration>>>>>>) @@
  (89 :> \* state 20
     <<<<ACTIONS_ID(7), <<sym_comment>>>>,
       <<ACTIONS_ID(126), <<anon_sym_w, anon_sym_h>>>>,
       <<ACTIONS_ID(124), <<ts_builtin_sym_end, anon_sym_POUND_POUND, anon_sym_style, anon_sym_RBRACE, anon_sym_group, anon_sym_rect, anon_sym_ellipse, anon_sym_path, anon_sym_text, anon_sym_width, anon_sym_height, anon_sym_fill, anon_sym_stroke, anon_sym_corner, anon_sym_opacity, anon_sym_font, anon_sym_bg, anon_sym_use, anon_sym_layout, anon_sym_shadow, anon_sym_scale, anon_sym_rotate, anon_sym_translate, anon_sym_center_in, anon_sym_offset, anon_sym_ease, anon_sym_duration, anon_sym_anim, anon_sym_AT>>>>>>) @@
  (128 :> \* state 21
     <<<<ACTIONS_ID(7), <<sym_comment>>>>,
       <<ACTIONS_ID(130), <<anon_sym_w, anon_sym_h>>>>,
       <<ACTIONS_ID(128), <<ts_builtin_sym_end, anon_sym_POUND_POUND, anon_sym_style, anon_sym_RBRACE, anon_sym_group, anon_sym_rect, anon_sym_ellipse, anon_sym_path, anon_sym_text, anon_sym_width, anon_sym_height, anon_sym_fill, anon_sym_stroke, anon_sym_corner, anon_sym_opacity, anon_sym_font, anon_sym_bg, anon_sym_use, anon_sym_layout, anon_sym_shadow, anon_sym_scale, anon_sym_rotate, anon_sym_translate, anon_sym_center_in, anon_sym_offset, anon_sym_ease, anon_sym_duration, anon_sym_anim, anon_sym_AT>>>>>>) @@
  (167 :> \* state 22
     <<<<ACTIONS_ID(7), <<sym_comment>>>>,
       <<ACTIONS_ID(134), <<anon_sym_w, anon_sym_h>>>>,
       <<ACTIONS_ID(132), <<ts_builtin_sym_end, anon_sym_POUND_POUND, anon_sym_style, anon_sym_RBRACE, anon_sym_group, anon_sym_rect, anon_sym_ellipse, anon_sym_path, anon_sym_text, anon_sym_width, anon_sym_height, anon_sym_fill, anon_sym_stroke, anon_sym_corner, anon_sym_opacity, anon_sym_font, anon_sym_bg, anon_sym_use, anon_sym_layout, anon_sym_shadow, anon_sym_scale, anon_sym_rotate, anon_sym_translate, anon_sym_center_in, anon_sym_offset, anon_sym_ease, anon_sym_duration, anon_sym_anim, anon_sym_AT>>>>>>) @@
  (206 :> \* state 23
     <<<<ACTIONS_ID(7), <<sym_comment>>>>,
       <<ACTIONS_ID(138), <<anon_sym_w, anon_sym_h>>>>,
       <<ACTIONS_ID(136), <<ts_builtin_sym_end, anon_sym_POUND_POUND, anon_sym_style, anon_sym_RBRACE, anon_sym_group, anon_sym_rect, anon_sym_ellipse, anon_sym_path, anon_sym_text, anon_sym_width, anon_sym_height, anon_sym_fill, anon_sym_stroke, anon_sym_corner, anon_sym_opacity, anon_sym_font, anon_sym_bg, anon_sym_use, anon_sym_layout, anon_sym_shadow, anon_sym_scale, anon_sym_rotate, anon_sym_translate, anon_sym_center_in, anon_sym_offset, anon_sym_ease, anon_sym_duration, anon_sym_anim, anon_sym_AT>>>>>>) @@
  (245 :> \* state 24
     <<<<ACTIONS_ID(7), <<sym_comment>>>>,
       <<ACTIONS_ID(142), <<anon_sym_w, anon_sym_h>>>>,
       <<ACTIONS_ID(140), <<ts_builtin_sym_end, anon_sym_POUND_POUND, anon_sym_style, anon_sym_RBRACE, anon_sym_group, anon_sym_rect, anon_sym_ellipse, anon_sym_path, anon_sym_text, anon_sym_width, anon_sym_height, anon_sym_fill, anon_sym_stroke, anon_sym_corner, anon_sym_opacity, anon_sym_font, anon_sym_bg, anon_sym_use, anon_sym_layout, anon_sym_shadow, anon_sym_scale, anon_sym_rotate, anon_sym_translate, anon_sym_center_in, anon_sym_offset, anon_sym_ease, anon_sym_duration, anon_sym_anim, anon_sym_AT>>>>>>) @@
  (284 :> \* state 25
     <<<<ACTIONS_ID(7), <<sym_comment>>>>,
       <<ACTIONS_ID(146), <<anon_sym_w, anon_sym_h>>>>,
       <<ACTIONS_ID(144), <<ts_builtin_sym_end, anon_sym_POUND_POUND, anon_sym_style, anon_sym_RBRACE, anon_sym_group, anon_sym_rect, anon_sym_ellipse, anon_sym_path, anon_sym_text, anon_sym_width, anon_sym_height, anon_sym_fill, anon_sym_stroke, anon_sym_corner, anon_sym_opacity, anon_sym_font, anon_sym_bg, anon_sym_use, anon_sym_layout, anon_sym_shadow, anon_sym_scale, anon_sym_rotate, anon_sym_translate, anon_sym_center_in, anon_sym_offset, anon_sym_ease, anon_sym_duration, anon_sym_anim, anon_sym_AT>>>>>>)

ts_small_parse_table_26_33 ==
  (323 :> \* state 26
     <<<<ACTIONS_ID(7), <<sym_comment>>>>,
       <<ACTIONS_ID(150), <<anon_sym_w, anon_sym_h>>>>,
       <<ACTIONS_ID(148), <<ts_builtin_sym_end, anon_sym_POUND_POUND, anon_sym_style, anon_sym_RBRACE, anon_sym_group, anon_sym_rect, anon_sym_ellipse, anon_sym_path, anon_sym_text, anon_sym_width, anon_sym_height, anon_sym_fill, anon_sym_stroke, anon_sym_corner, anon_sym_opacity, anon_sym_font, anon_sym_bg, anon_sym_use, anon_sym_layout, anon_sym_shadow, anon_sym_scale, anon_sym_rotate, anon_sym_translate, anon_sym_center_in, anon_sym_offset, anon_sym_ease, anon_sym_duration, anon_sym_anim, anon_sym_AT>>>>>>) @@
  (362 :> \* state 27
     <<<<ACTIONS_ID(7), <<sym_comment>>>>,
       <<ACTIONS_ID(154), <<anon_sym_w, anon_sym_h>>>>,
       <<ACTIONS_ID(152), <<ts_builtin_sym_end, anon_sym_POUND_POUND, anon_sym_style, anon_sym_RBRACE, anon_sym_group, anon_sym_rect, anon_sym_ellipse, anon_sym_path, anon_sym_text, anon_sym_width, anon_sym_height, anon_sym_fill, anon_sym_stroke, anon_sym_corner, anon_sym_opacity, anon_sym_font, anon_sym_bg, anon_sym_use, anon_sym_layout, anon_sym_shadow, anon_sym_scale, anon_sym_rotate, anon_sym_translate, anon_sym_center_in, anon_sym_offset, anon_sym_ease, anon_sym_duration, anon_sym_anim, anon_sym_AT>>>>>>) @@
  (401 :> \* state 28
     <<<<ACTIONS_ID(7), <<sym_comment>>>>,
       <<ACTIONS_ID(158), <<anon_sym_w, anon_sym_h>>>>,
       <<ACTIONS_ID(156), <<ts_builtin_sym_end, anon_sym_POUND_POUND, anon_sym_style, anon_sym_RBRACE, anon_sym_group, anon_sym_rect, anon_sym_ellipse, anon_sym_path, anon_sym_text, anon_sym_width, anon_sym_height, anon_sym_fill, anon_sym_stroke, anon_sym_corner, anon_sym_opacity, anon_sym_font, anon_sym_bg, anon_sym_use, anon_sym_layout, anon_sym_shadow, anon_sym_scale, anon_sym_rotate, anon_sym_translate, anon_sym_center_in, anon_sym_offset, anon_sym_ease, anon_sym_duration, anon_sym_anim, anon_sym_AT>>>>>>) @@
  (440 :> \* state 29
     <<<<ACTIONS_ID(7), <<sym_comment>>>>,
       <<ACTIONS_ID(162), <<anon_sym_w, anon_sym_h>>>>,
       <<ACTIONS_ID(160), <<ts_builtin_sym_end, anon_sym_POUND_POUND, anon_sym_style, anon_sym_RBRACE, anon_sym_group, anon_sym_rect, anon_sym_ellipse, anon_sym_path, anon_sym_text, anon_sym_width, anon_sym_height, anon_sym_fill, anon_sym_stroke, anon_sym_corner, anon_sym_opacity, anon_sym_font, anon_sym_bg, anon_sym_use, anon_sym_layout, anon_sym_shadow, anon_sym_scale, anon_sym_rotate, anon_sym_translate, anon_sym_center_in, anon_sym_offset, anon_sym_ease, anon_sym_duration, anon_sym_anim, anon_sym_AT>>>>>>) @@
  (479 :> \* state 30
     <<<<ACTIONS_ID(3), <<sym_comment>>>>,
       <<ACTIONS_ID(17), <<anon_sym_RBRACE>>>>,
       <<ACTIONS_ID(164), <<anon_sym_AT>>>>,
       <<ACTIONS_ID(166), <<sym_identifier>>>>,
       <<ACTIONS_ID(170), <<anon_sym_DQUOTE>>>>,
       <<ACTIONS_ID(168), <<sym_number, sym_hex_color>>>>,
       <<STATE_ID(19), <<sym__value_item, sym_key_value_pair, sym_node_id, sym_string, aux_sym_property_repeat1>>>>,
       <<ACTIONS_ID(19), <<anon_sym_w, anon_sym_h, anon_sym_width, anon_sym_height, anon_sym_fill, anon_sym_stroke, anon_sym_corner, anon_sym_opacity, anon_sym_font, anon_sym_bg, anon_sym_use, anon_sym_layout, anon_sym_shadow, anon_sym_scale, anon_sym_rotate, anon_sym_translate, anon_sym_center_in, anon_sym_offset, anon_sym_ease, anon_sym_duration>>>>>>) @@
  (528 :> \* state 31
     <<<<ACTIONS_ID(7), <<sym_comment>>>>,
       <<ACTIONS_ID(174), <<anon_sym_w, anon_sym_h>>>>,
       <<ACTIONS_ID(172), <<anon_sym_POUND_POUND, anon_sym_RBRACE, anon_sym_group, anon_sym_rect, anon_sym_ellipse, anon_sym_path, anon_sym_text, anon_sym_width, anon_sym_height, anon_sym_fill, anon_sym_stroke, anon_sym_corner, anon_sym_opacity, anon_sym_font, anon_sym_bg, anon_sym_use, anon_sym_layout, anon_sym_shadow, anon_sym_scale, anon_sym_rotate, anon_sym_translate, anon_sym_center_in, anon_sym_offset, anon_sym_ease, anon_sym_duration, anon_sym_anim>>>>>>) @@
  (564 :> \* state 32
     <<<<ACTIONS_ID(7), <<sym_comment>>>>,
       <<ACTIONS_ID(178), <<anon_sym_w, anon_sym_h>>>>,
       <<ACTIONS_ID(176), <<anon_sym_POUND_POUND, anon_sym_RBRACE, anon_sym_group, anon_sym_rect, anon_sym_ellipse, anon_sym_path, anon_sym_text, anon_sym_width, anon_sym_height, anon_sym_fill, anon_sym_stroke, anon_sym_corner, anon_sym_opacity, anon_sym_font, anon_sym_bg, anon_sym_use, anon_sym_layout, anon_sym_shadow, anon_sym_scale, anon_sym_rotate, anon_sym_translate, anon_sym_center_in, anon_sym_offset, anon_sym_ease, anon_sym_duration, anon_sym_anim>>>>>>) @@
  (600 :> \* state 33
     <<<<ACTIONS_ID(7), <<sym_comment>>>>,
       <<ACTIONS_ID(182), <<anon_sym_w, anon_sym_h>>>>,
       <<ACTIONS_ID(180), <<anon_sym_POUND_POUND, anon_sym_RBRACE, anon_sym_group, anon_sym_rect, anon_sym_ellipse, anon_sym_path, anon_sym_text, anon_sym_width, anon_sym_height, anon_sym_fill, anon_sym_stroke, anon_sym_corner, anon_sym_opacity, anon_sym_font, anon_sym_bg, anon_sym_use, anon_sym_layout, anon_sym_shadow, anon_sym_scale, anon_sym_rotate, anon_sym_translate, anon_sym_center_in, anon_sym_offset, anon_sym_ease, anon_sym_duration, anon_sym_anim>>>>>>)

ts_small_parse_table_34_37 ==
  (636 :> \* state 34
     <<<<ACTIONS_ID(3), <<sym_comment>>>>,
       <<ACTIONS_ID(184), <<anon_sym_EQ>>>>,
       <<ACTIONS_ID(94), <<anon_sym_RBRACE, anon_sym_AT, sym_number, sym_hex_color, anon_sym_DQUOTE>>>>,
       <<ACTIONS_ID(96), <<anon_sym_w, anon_sym_h, anon_sym_width, anon_sym_height, anon_sym_fill, anon_sym_stroke, anon_sym_corner, anon_sym_opacity, anon_sym_font, anon_sym_bg, anon_sym_use, anon_sym_layout, anon_sym_shadow, anon_sym_scale, anon_sym_rotate, anon_sym_translate, anon_sym_center_in, anon_sym_offset, anon_sym_ease, anon_sym_duration, sym_identifier>>>>>>) @@
  (673 :> \* state 35
     <<<<ACTIONS_ID(3), <<sym_comment>>>>,
       <<ACTIONS_ID(100), <<anon_sym_RBRACE, anon_sym_AT, sym_number, sym_hex_color, anon_sym_DQUOTE>>>>,
       <<ACTIONS_ID(102), <<anon_sym_w, anon_sym_h, anon_sym_width, anon_sym_height, anon_sym_fill, anon_sym_stroke, anon_sym_corner, anon_sym_opacity, anon_sym_font, anon_sym_bg, anon_sym_use, anon_sym_layout, anon_sym_shadow, anon_sym_scale, anon_sym_rotate, anon_sym_translate, anon_sym_center_in, anon_sym_offset, anon_sym_ease, anon_sym_duration, sym_identifier>>>>>>) @@
  (707 :> \* state 36
     <<<<ACTIONS_ID(3), <<sym_comment>>>>,
       <<ACTIONS_ID(104), <<anon_sym_RBRACE, anon_sym_AT, sym_number, sym_hex_color, anon_sym_DQUOTE>>>>,
       <<ACTIONS_ID(106), <<anon_sym_w, anon_sym_h, anon_sym_width, anon_sym_height, anon_sym_fill, anon_sym_stroke, anon_sym_corner, anon_sym_opacity, anon_sym_font, anon_sym_bg, anon_sym_use, anon_sym_layout, anon_sym_shadow, anon_sym_scale, anon_sym_rotate, anon_sym_translate, anon_sym_center_in, anon_sym_offset, anon_sym_ease, anon_sym_duration, sym_identifier>>>>>>) @@
  (741 :> \* state 37
     <<<<ACTIONS_ID(3), <<sym_comment>>>>,
       <<ACTIONS_ID(108), <<anon_sym_RBRACE, anon_sym_AT, sym_number, sym_hex_color, anon_sym_DQUOTE>>>>,
       <<ACTIONS_ID(110), <<anon_sym_w, anon_sym_h, anon_sym_width, anon_sym_height, anon_sym_fill, anon_sym_stroke, anon_sym_corner, anon_sym_opacity, anon_sym_font, anon_sym_bg, anon_sym_use, anon_sym_layout, anon_sym_shadow, anon_sym_scale, anon_sym_rotate, anon_sym_translate, anon_sym_center_in, anon_sym_offset, anon_sym_ease, anon_sym_duration, sym_identifier>>>>>>)

ts_small_parse_table_38 ==
  (775 :> \* state 38
     <<<<ACTIONS_ID(7), <<sym_comment>>>>,
       <<ACTIONS_ID(186), <<anon_sym_RBRACE>>>>,
       <<STATE_ID(91), <<sym_property_name>>>>,
       <<ACTIONS_ID(57), <<anon_sym_w, anon_sym_h>>>>,
       <<STATE_ID(42), <<sym_property, aux_sym_style_block_repeat1>>>>,
       <<ACTIONS_ID(59), <<anon_sym_width, anon_sym_height, anon_sym_fill, anon_sym_stroke, anon_sym_corner, anon_sym_opacity, anon_sym_font, anon_sym_bg, anon_sym_use, anon_sym_layout, anon_sym_shadow, anon_sym_scale, anon_sym_rotate, anon_sym_translate, anon_sym_center_in, anon_sym_offset, anon_sym_ease, anon_sym_duration>>>>>>)

ts_small_parse_table_39_42 ==
  (813 :> \* state 39
     <<<<ACTIONS_ID(7), <<sym_comment>>>>,
       <<ACTIONS_ID(188), <<anon_sym_RBRACE>>>>,
       <<STATE_ID(91), <<sym_property_name>>>>,
       <<ACTIONS_ID(57), <<anon_sym_w, anon_sym_h>>>>,
       <<STATE_ID(40), <<sym_property, aux_sym_style_block_repeat1>>>>,
       <<ACTIONS_ID(59), <<anon_sym_width, anon_sym_height, anon_sym_fill, anon_sym_stroke, anon_sym_corner, anon_sym_opacity, anon_sym_font, anon_sym_bg, anon_sym_use, anon_sym_layout, anon_sym_shadow, anon_sym_scale, anon_sym_rotate, anon_sym_translate, anon_sym_center_in, anon_sym_offset, anon_sym_ease, anon_sym_duration>>>>>>) @@
  (851 :> \* state 40
     <<<<ACTIONS_ID(7), <<sym_comment>>>>,
       <<ACTIONS_ID(190), <<anon_sym_RBRACE>>>>,
       <<STATE_ID(91), <<sym_property_name>>>>,
       <<ACTIONS_ID(192), <<anon_sym_w, anon_sym_h>>>>,
       <<STATE_ID(40), <<sym_property, aux_sym_style_block_repeat1>>>>,
       <<ACTIONS_ID(195), <<anon_sym_width, anon_sym_height, anon_sym_fill, anon_sym_stroke, anon_sym_corner, anon_sym_opacity, anon_sym_font, anon_sym_bg, anon_sym_use, anon_sym_layout, anon_sym_shadow, anon_sym_scale, anon_sym_rotate, anon_sym_translate, anon_sym_center_in, anon_sym_offset, anon_sym_ease, anon_sym_duration>>>>>>) @@
  (889 :> \* state 41
     <<<<ACTIONS_ID(7), <<sym_comment>>>>,
       <<ACTIONS_ID(198), <<anon_sym_RBRACE>>>>,
       <<STATE_ID(91), <<sym_property_name>>>>,
       <<ACTIONS_ID(57), <<anon_sym_w, anon_sym_h>>>>,
       <<STATE_ID(39), <<sym_property, aux_sym_style_block_repeat1>>>>,
       <<ACTIONS_ID(59), <<anon_sym_width, anon_sym_height, anon_sym_fill, anon_sym_stroke, anon_sym_corner, anon_sym_opacity, anon_sym_font, anon_sym_bg, anon_sym_use, anon_sym_layout, anon_sym_shadow, anon_sym_scale, anon_sym_rotate, anon_sym_translate, anon_sym_center_in, anon_sym_offset, anon_sym_ease, anon_sym_duration>>>>>>) @@
  (927 :> \* state 42
     <<<<ACTIONS_ID(7), <<sym_comment>>>>,
       <<ACTIONS_ID(200), <<anon_sym_RBRACE>>>>,
       <<STATE_ID(91), <<sym_property_name>>>>,
       <<ACTIONS_ID(57), <<anon_sym_w, anon_sym_h>>>>,
       <<STATE_ID(40), <<sym_property, aux_sym_style_block_repeat1>>>>,
       <<ACTIONS_ID(59), <<anon_sym_width, anon_sym_height, anon_sym_fill, anon_sym_stroke, anon_sym_corner, anon_sym_opacity, anon_sym_font, anon_sym_bg, anon_sym_use, anon_sym_layout, anon_sym_shadow, anon_sym_scale, anon_sym_rotate, anon_sym_translate, anon_sym_center_in, anon_sym_offset, anon_sym_ease, anon_sym_duration>>>>>>)

ts_small_parse_table_43 ==
  (965 :> \* state 43
     <<<<ACTIONS_ID(3), <<sym_comment>>>>,
       <<ACTIONS_ID(206), <<anon_sym_AT>>>>,
       <<ACTIONS_ID(208), <<sym_identifier>>>>,
       <<ACTIONS_ID(212), <<anon_sym_DQUOTE>>>>,
       <<ACTIONS_ID(202), <<ts_builtin_sym_end, anon_sym_POUND_POUND>>>>,
       <<ACTIONS_ID(210), <<sym_number, sym_hex_color>>>>,
       <<STATE_ID(44), <<sym__value_item, sym_key_value_pair, sym_node_id, sym_string, aux_sym_property_repeat1>>>>,
       <<ACTIONS_ID(204), <<anon_sym_style, anon_sym_group, anon_sym_rect, anon_sym_ellipse, anon_sym_path, anon_sym_text>>>>>>)

ts_small_parse_table_44 ==
  (1001 :> \* state 44
     <<<<ACTIONS_ID(3), <<sym_comment>>>>,
       <<ACTIONS_ID(214), <<anon_sym_AT>>>>,
       <<ACTIONS_ID(217), <<sym_identifier>>>>,
       <<ACTIONS_ID(223), <<anon_sym_DQUOTE>>>>,
       <<ACTIONS_ID(29), <<ts_builtin_sym_end, anon_sym_POUND_POUND>>>>,
       <<ACTIONS_ID(220), <<sym_number, sym_hex_color>>>>,
       <<STATE_ID(44), <<sym__value_item, sym_key_value_pair, sym_node_id, sym_string, aux_sym_property_repeat1>>>>,
       <<ACTIONS_ID(31), <<anon_sym_style, anon_sym_group, anon_sym_rect, anon_sym_ellipse, anon_sym_path, anon_sym_text>>>>>>)

\* C4 mutant: after `##`, state 45 has no action for the annotation text
ts_small_parse_table_45_C4 ==
  (1037 :> \* state 45
     <<<<ACTIONS_ID(3), <<sym_comment>>>>,
       <<ACTIONS_ID(51), <<anon_sym_DQUOTE>>>>,
       <<ACTIONS_ID(226), <<ts_builtin_sym_end>>>>,
       <<STATE_ID(86), <<sym_annotation_keyword>>>>,
       <<STATE_ID(25), <<sym_annotation_typed, sym_string>>>>,
       <<ACTIONS_ID(49), <<anon_sym_accept, anon_sym_status, anon_sym_priority, anon_sym_tag>>>>,
       <<ACTIONS_ID(45), <<anon_sym_POUND_POUND, anon_sym_style, anon_sym_group, anon_sym_rect, anon_sym_ellipse, anon_sym_path, anon_sym_text, anon_sym_AT>>>>>>)

ts_small_parse_table_45 ==
  (1037 :> \* state 45
     <<<<ACTIONS_ID(3), <<sym_comment>>>>,
       <<ACTIONS_ID(47), <<sym_annotation_text>>>>,
       <<ACTIONS_ID(51), <<anon_sym_DQUOTE>>>>,
       <<ACTIONS_ID(226), <<ts_builtin_sym_end>>>>,
       <<STATE_ID(86), <<sym_annotation_keyword>>>>,
       <<STATE_ID(25), <<sym_annotation_typed, sym_string>>>>,
       <<ACTIONS_ID(49), <<anon_sym_accept, anon_sym_status, anon_sym_priority, anon_sym_tag>>>>,
       <<ACTIONS_ID(45), <<anon_sym_POUND_POUND, anon_sym_style, anon_sym_group, anon_sym_rect, anon_sym_ellipse, anon_sym_path, anon_sym_text, anon_sym_AT>>>>>>)

ts_small_parse_table_46 ==
  (1073 :> \* state 46
     <<<<ACTIONS_ID(7), <<sym_comment>>>>,
       <<ACTIONS_ID(228), <<ts_builtin_sym_end>>>>,
       <<ACTIONS_ID(230), <<anon_sym_POUND_POUND>>>>,
       <<ACTIONS_ID(233), <<anon_sym_style>>>>,
       <<ACTIONS_ID(239), <<anon_sym_AT>>>>,
       <<STATE_ID(60), <<sym_node_kind>>>>,
       <<STATE_ID(72), <<sym_node_id>>>>,
       <<ACTIONS_ID(236), <<anon_sym_group, anon_sym_rect, anon_sym_ellipse, anon_sym_path, anon_sym_text>>>>,
       <<STATE_ID(46), <<sym_annotation, sym_style_block, sym_node_declaration, sym_constraint_line, aux_sym_document_repeat1>>>>>>)

ts_small_parse_table_47 ==
  (1109 :> \* state 47
     <<<<ACTIONS_ID(7), <<sym_comment>>>>,
       <<ACTIONS_ID(9), <<anon_sym_POUND_POUND>>>>,
       <<ACTIONS_ID(11), <<anon_sym_style>>>>,
       <<ACTIONS_ID(15), <<anon_sym_AT>>>>,
       <<ACTIONS_ID(242), <<ts_builtin_sym_end>>>>,
       <<STATE_ID(60), <<sym_node_kind>>>>,
       <<STATE_ID(72), <<sym_node_id>>>>,
       <<ACTIONS_ID(13), <<anon_sym_group, anon_sym_rect, anon_sym_ellipse, anon_sym_path, anon_sym_text>>>>,
       <<STATE_ID(46), <<sym_annotation, sym_style_block, sym_node_declaration, sym_constraint_line, aux_sym_document_repeat1>>>>>>)

ts_small_parse_table_48_52 ==
  (1145 :> \* state 48
     <<<<ACTIONS_ID(3), <<sym_comment>>>>,
       <<ACTIONS_ID(244), <<anon_sym_EQ>>>>,
       <<ACTIONS_ID(94), <<ts_builtin_sym_end, anon_sym_POUND_POUND, anon_sym_AT, sym_number, sym_hex_color, anon_sym_DQUOTE>>>>,
       <<ACTIONS_ID(96), <<anon_sym_style, anon_sym_group, anon_sym_rect, anon_sym_ellipse, anon_sym_path, anon_sym_text, sym_identifier>>>>>>) @@
  (1169 :> \* state 49
     <<<<ACTIONS_ID(3), <<sym_comment>>>>,
       <<ACTIONS_ID(104), <<ts_builtin_sym_end, anon_sym_POUND_POUND, anon_sym_AT, sym_number, sym_hex_color, anon_sym_DQUOTE>>>>,
       <<ACTIONS_ID(106), <<anon_sym_style, anon_sym_group, anon_sym_rect, anon_sym_ellipse, anon_sym_path, anon_sym_text, sym_identifier>>>>>>) @@
  (1190 :> \* state 50
     <<<<ACTIONS_ID(3), <<sym_comment>>>>,
       <<ACTIONS_ID(108), <<ts_builtin_sym_end, anon_sym_POUND_POUND, anon_sym_AT, sym_number, sym_hex_color, anon_sym_DQUOTE>>>>,
       <<ACTIONS_ID(110), <<anon_sym_style, anon_sym_group, anon_sym_rect, anon_sym_ellipse, anon_sym_path, anon_sym_text, sym_identifier>>>>>>) @@
  (1211 :> \* state 51
     <<<<ACTIONS_ID(3), <<sym_comment>>>>,
       <<ACTIONS_ID(100), <<ts_builtin_sym_end, anon_sym_POUND_POUND, anon_sym_AT, sym_number, sym_hex_color, anon_sym_DQUOTE>>>>,
       <<ACTIONS_ID(102), <<anon_sym_style, anon_sym_group, anon_sym_rect, anon_sym_ellipse, anon_sym_path, anon_sym_text, sym_identifier>>>>>>) @@
  (1232 :> \* state 52
     <<<<ACTIONS_ID(3), <<sym_comment>>>>,
       <<ACTIONS_ID(206), <<anon_sym_AT>>>>,
       <<ACTIONS_ID(212), <<anon_sym_DQUOTE>>>>,
       <<ACTIONS_ID(246), <<sym_identifier>>>>,
       <<ACTIONS_ID(248), <<sym_number, sym_hex_color>>>>,
       <<STATE_ID(43), <<sym__value_item, sym_key_value_pair, sym_node_id, sym_string, aux_sym_property_repeat1>>>>>>)

\* C15 mutant: after the colon of a property, state 53 takes a number but
\* no hex_color as the first value
ts_small_parse_table_53_C15 ==
  (1256 :> \* state 53
     <<<<ACTIONS_ID(3), <<sym_comment>>>>,
       <<ACTIONS_ID(21), <<anon_sym_AT>>>>,
       <<ACTIONS_ID(27), <<anon_sym_DQUOTE>>>>,
       <<ACTIONS_ID(250), <<sym_identifier>>>>,
       <<ACTIONS_ID(252), <<sym_number>>>>,
       <<STATE_ID(2), <<sym__value_item, sym_key_value_pair, sym_node_id, sym_string, aux_sym_property_repeat1>>>>>>)

ts_small_parse_table_53 ==
  (1256 :> \* state 53
     <<<<ACTIONS_ID(3), <<sym_comment>>>>,
       <<ACTIONS_ID(21), <<anon_sym_AT>>>>,
       <<ACTIONS_ID(27), <<anon_sym_DQUOTE>>>>,
       <<ACTIONS_ID(250), <<sym_identifier>>>>,
       <<ACTIONS_ID(252), <<sym_number, sym_hex_color>>>>,
       <<STATE_ID(2), <<sym__value_item, sym_key_value_pair, sym_node_id, sym_string, aux_sym_property_repeat1>>>>>>)

ts_small_parse_table_54_56 ==
  (1280 :> \* state 54
     <<<<ACTIONS_ID(3), <<sym_comment>>>>,
       <<ACTIONS_ID(164), <<anon_sym_AT>>>>,
       <<ACTIONS_ID(170), <<anon_sym_DQUOTE>>>>,
       <<ACTIONS_ID(254), <<sym_identifier>>>>,
       <<ACTIONS_ID(256), <<sym_number, sym_hex_color>>>>,
       <<STATE_ID(30), <<sym__value_item, sym_key_value_pair, sym_node_id, sym_string, aux_sym_property_repeat1>>>>>>) @@
  (1304 :> \* state 55
     <<<<ACTIONS_ID(7), <<sym_comment>>>>,
       <<ACTIONS_ID(258), <<ts_builtin_sym_end, anon_sym_POUND_POUND, anon_sym_style, anon_sym_group, anon_sym_rect, anon_sym_ellipse, anon_sym_path, anon_sym_text, anon_sym_AT>>>>>>) @@
  (1319 :> \* state 56
     <<<<ACTIONS_ID(7), <<sym_comment>>>>,
       <<ACTIONS_ID(260), <<ts_builtin_sym_end, anon_sym_POUND_POUND, anon_sym_style, anon_sym_group, anon_sym_rect, anon_sym_ellipse, anon_sym_path, anon_sym_text, anon_sym_AT>>>>>>)

ts_small_parse_table_57 ==
  (1334 :> \* state 57
     <<<<ACTIONS_ID(3), <<sym_comment>>>>,
       <<ACTIONS_ID(212), <<anon_sym_DQUOTE>>>>,
       <<STATE_ID(50), <<sym_string>>>>,
       <<ACTIONS_ID(262), <<sym_identifier, sym_number, sym_hex_color>>>>>>)

ts_small_parse_table_58 ==
  (1349 :> \* state 58
     <<<<ACTIONS_ID(3), <<sym_comment>>>>,
       <<ACTIONS_ID(170), <<anon_sym_DQUOTE>>>>,
       <<STATE_ID(37), <<sym_string>>>>,
       <<ACTIONS_ID(264), <<sym_identifier, sym_number, sym_hex_color>>>>>>)

ts_small_parse_table_59 ==
  (1364 :> \* state 59
     <<<<ACTIONS_ID(3), <<sym_comment>>>>,
       <<ACTIONS_ID(27), <<anon_sym_DQUOTE>>>>,
       <<STATE_ID(17), <<sym_string>>>>,
       <<ACTIONS_ID(266), <<sym_identifier, sym_number, sym_hex_color>>>>>>)

ts_small_parse_table_60 ==
  (1379 :> \* state 60
     <<<<ACTIONS_ID(7), <<sym_comment>>>>,
       <<ACTIONS_ID(15), <<anon_sym_AT>>>>,
       <<ACTIONS_ID(268), <<anon_sym_LBRACE>>>>,
       <<ACTIONS_ID(270), <<anon_sym_DQUOTE>>>>,
       <<STATE_ID(62), <<sym_node_id>>>>,
       <<STATE_ID(78), <<sym_string>>>>>>)

\* C34 mutant: state 61 (after a node id) takes a comment with entry 9, the
\* shift of `##`, not with the shift-extra entry
ts_small_parse_table_61_C34 ==
  (1398 :> \* state 61
     <<<<ACTIONS_ID(9), <<sym_comment>>>>,
       <<ACTIONS_ID(104), <<anon_sym_LBRACE, anon_sym_DASH_GT, anon_sym_DQUOTE>>>>>>)

ts_small_parse_table_61 ==
  (1398 :> \* state 61
     <<<<ACTIONS_ID(7), <<sym_comment>>>>,
       <<ACTIONS_ID(104), <<anon_sym_LBRACE, anon_sym_DASH_GT, anon_sym_DQUOTE>>>>>>)

ts_small_parse_table_62 ==
  (1407 :> \* state 62
     <<<<ACTIONS_ID(7), <<sym_comment>>>>,
       <<ACTIONS_ID(270), <<anon_sym_DQUOTE>>>>,
       <<ACTIONS_ID(272), <<anon_sym_LBRACE>>>>,
       <<STATE_ID(80), <<sym_string>>>>>>)

ts_small_parse_table_63 ==
  (1420 :> \* state 63
     <<<<ACTIONS_ID(3), <<sym_comment>>>>,
       <<ACTIONS_ID(51), <<anon_sym_DQUOTE>>>>,
       <<ACTIONS_ID(274), <<sym_annotation_text>>>>,
       <<STATE_ID(27), <<sym_string>>>>>>)

ts_small_parse_table_64 ==
  (1433 :> \* state 64
     <<<<ACTIONS_ID(7), <<sym_comment>>>>,
       <<ACTIONS_ID(276), <<anon_sym_LBRACE, anon_sym_AT, anon_sym_DQUOTE>>>>>>)

\* C6 mutant: after `anim`, state 65 has no action for the colon of the trigger
ts_small_parse_table_65_C6 ==
  (1442 :> \* state 65
     <<<<ACTIONS_ID(7), <<sym_comment>>>>,
       <<STATE_ID(71), <<sym_anim_trigger>>>>>>)

ts_small_parse_table_65 ==
  (1442 :> \* state 65
     <<<<ACTIONS_ID(7), <<sym_comment>>>>,
       <<ACTIONS_ID(278), <<anon_sym_COLON>>>>,
       <<STATE_ID(71), <<sym_anim_trigger>>>>>>)

ts_small_parse_table_66 ==
  (1452 :> \* state 66
     <<<<ACTIONS_ID(7), <<sym_comment>>>>,
       <<ACTIONS_ID(280), <<anon_sym_DQUOTE>>>>>>)

ts_small_parse_table_67 ==
  (1459 :> \* state 67
     <<<<ACTIONS_ID(7), <<sym_comment>>>>,
       <<ACTIONS_ID(282), <<anon_sym_LBRACE>>>>>>)

ts_small_parse_table_68 ==
  (1466 :> \* state 68
     <<<<ACTIONS_ID(7), <<sym_comment>>>>,
       <<ACTIONS_ID(284), <<ts_builtin_sym_end>>>>>>)

ts_small_parse_table_69_72 ==
  (1473 :> \* state 69
     <<<<ACTIONS_ID(7), <<sym_comment>>>>,
       <<ACTIONS_ID(286), <<anon_sym_DQUOTE>>>>>>) @@
  (1480 :> \* state 70
     <<<<ACTIONS_ID(7), <<sym_comment>>>>,
       <<ACTIONS_ID(288), <<sym_identifier>>>>>>) @@
  (1487 :> \* state 71
     <<<<ACTIONS_ID(7), <<sym_comment>>>>,
       <<ACTIONS_ID(290), <<anon_sym_LBRACE>>>>>>) @@
  (1494 :> \* state 72
     <<<<ACTIONS_ID(7), <<sym_comment>>>>,
       <<ACTIONS_ID(292), <<anon_sym_DASH_GT>>>>>>)

ts_small_parse_table_73 ==
  (1501 :> \* state 73
     <<<<ACTIONS_ID(7), <<sym_comment>>>>,
       <<ACTIONS_ID(294), <<anon_sym_COLON>>>>>>)

ts_small_parse_table_74_76 ==
  (1508 :> \* state 74
     <<<<ACTIONS_ID(7), <<sym_comment>>>>,
       <<ACTIONS_ID(296), <<sym_identifier>>>>>>) @@
  (1515 :> \* state 75
     <<<<ACTIONS_ID(7), <<sym_comment>>>>,
       <<ACTIONS_ID(298), <<sym_identifier>>>>>>) @@
  (1522 :> \* state 76
     <<<<ACTIONS_ID(7), <<sym_comment>>>>,
       <<ACTIONS_ID(300), <<anon_sym_LBRACE>>>>>>)

\* C3 mutant: after a property name, state 77 shifts `=` instead of `:`
ts_small_parse_table_77_C3 ==
  (1529 :> \* state 77
     <<<<ACTIONS_ID(7), <<sym_comment>>>>,
       <<ACTIONS_ID(302), <<anon_sym_EQ>>>>>>)

ts_small_parse_table_77 ==
  (1529 :> \* state 77
     <<<<ACTIONS_ID(7), <<sym_comment>>>>,
       <<ACTIONS_ID(302), <<anon_sym_COLON>>>>>>)

\* C35 mutant: state 80 (after a node kind, a node id and the inline text)
\* opens the body on `}` instead of `{`
ts_small_parse_table_78_82_C35 ==
  (1536 :> \* state 78
     <<<<ACTIONS_ID(7), <<sym_comment>>>>,
       <<ACTIONS_ID(304), <<anon_sym_LBRACE>>>>>>) @@
  (1543 :> \* state 79
     <<<<ACTIONS_ID(7), <<sym_comment>>>>,
       <<ACTIONS_ID(306), <<anon_sym_COLON>>>>>>) @@
  (1550 :> \* state 80
     <<<<ACTIONS_ID(7), <<sym_comment>>>>,
       <<ACTIONS_ID(308), <<anon_sym_RBRACE>>>>>>) @@
  (1557 :> \* state 81
     <<<<ACTIONS_ID(7), <<sym_comment>>>>,
       <<ACTIONS_ID(310), <<sym_identifier>>>>>>) @@
  (1564 :> \* state 82
     <<<<ACTIONS_ID(7), <<sym_comment>>>>,
       <<ACTIONS_ID(312), <<anon_sym_DQUOTE>>>>>>)

ts_small_parse_table_78_82 ==
  (1536 :> \* state 78
     <<<<ACTIONS_ID(7), <<sym_comment>>>>,
       <<ACTIONS_ID(304), <<anon_sym_LBRACE>>>>>>) @@
  (1543 :> \* state 79
     <<<<ACTIONS_ID(7), <<sym_comment>>>>,
       <<ACTIONS_ID(306), <<anon_sym_COLON>>>>>>) @@
  (1550 :> \* state 80
     <<<<ACTIONS_ID(7), <<sym_comment>>>>,
       <<ACTIONS_ID(308), <<anon_sym_LBRACE>>>>>>) @@
  (1557 :> \* state 81
     <<<<ACTIONS_ID(7), <<sym_comment>>>>,
       <<ACTIONS_ID(310), <<sym_identifier>>>>>>) @@
  (1564 :> \* state 82
     <<<<ACTIONS_ID(7), <<sym_comment>>>>,
       <<ACTIONS_ID(312), <<anon_sym_DQUOTE>>>>>>)

ts_small_parse_table_83 ==
  (1571 :> \* state 83
     <<<<ACTIONS_ID(3), <<sym_comment>>>>,
       <<ACTIONS_ID(314), <<aux_sym_string_token1>>>>>>)

ts_small_parse_table_84_91 ==
  (1578 :> \* state 84
     <<<<ACTIONS_ID(7), <<sym_comment>>>>,
       <<ACTIONS_ID(316), <<anon_sym_COLON>>>>>>) @@
  (1585 :> \* state 85
     <<<<ACTIONS_ID(7), <<sym_comment>>>>,
       <<ACTIONS_ID(318), <<sym_identifier>>>>>>) @@
  (1592 :> \* state 86
     <<<<ACTIONS_ID(7), <<sym_comment>>>>,
       <<ACTIONS_ID(320), <<anon_sym_COLON>>>>>>) @@
  (1599 :> \* state 87
     <<<<ACTIONS_ID(7), <<sym_comment>>>>,
       <<ACTIONS_ID(322), <<sym_identifier>>>>>>) @@
  (1606 :> \* state 88
     <<<<ACTIONS_ID(7), <<sym_comment>>>>,
       <<ACTIONS_ID(324), <<sym_identifier>>>>>>) @@
  (1613 :> \* state 89
     <<<<ACTIONS_ID(7), <<sym_comment>>>>,
       <<ACTIONS_ID(326), <<anon_sym_DQUOTE>>>>>>) @@
  (1620 :> \* state 90
     <<<<ACTIONS_ID(3), <<sym_comment>>>>,
       <<ACTIONS_ID(328), <<aux_sym_string_token1>>>>>>) @@
  (1627 :> \* state 91
     <<<<ACTIONS_ID(7), <<sym_comment>>>>,
       <<ACTIONS_ID(330), <<anon_sym_COLON>>>>>>)

ts_small_parse_table_92_93 ==
  (1634 :> \* state 92
     <<<<ACTIONS_ID(3), <<sym_comment>>>>,
       <<ACTIONS_ID(332), <<aux_sym_string_token1>>>>>>) @@
  (1641 :> \* state 93
     <<<<ACTIONS_ID(3), <<sym_comment>>>>,
       <<ACTIONS_ID(334), <<aux_sym_string_token1>>>>>>)

ts_small_parse_table ==
  ts_small_parse_table_18_25 @@ ts_small_parse_table_26_33 @@ ts_small_parse_table_34_37 @@
  ts_small_parse_table_38 @@ ts_small_parse_table_39_42 @@ ts_small_parse_table_43 @@
  ts_small_parse_table_44 @@ ts_small_parse_table_45 @@ ts_small_parse_table_46 @@
  ts_small_parse_table_47 @@ ts_small_parse_table_48_52 @@ ts_small_parse_table_53 @@
  ts_small_parse_table_54_56 @@ ts_small_parse_table_57 @@ ts_small_parse_table_58 @@
  ts_small_parse_table_59 @@ ts_small_parse_table_60 @@ ts_small_parse_table_61 @@
  ts_small_parse_table_62 @@ ts_small_parse_table_63 @@ ts_small_parse_table_64 @@
  ts_small_parse_table_65 @@ ts_small_parse_table_66 @@ ts_small_parse_table_67 @@
  ts_small_parse_table_68 @@ ts_small_parse_table_69_72 @@ ts_small_parse_table_73 @@
  ts_small_parse_table_74_76 @@ ts_small_parse_table_77 @@ ts_small_parse_table_78_82 @@
  ts_small_parse_table_83 @@ ts_small_parse_table_84_91 @@ ts_small_parse_table_92_93

\* ---- ts_small_parse_table_map: SMALL_STATE(s) -> offset (a sequence indexed by SMALL_STATE(s) + 1)
ts_small_parse_table_map ==
  <<   0,   40,   89,  128,  167,  206,  245,  284,  323,  362,
     401,  440,  479,  528,  564,  600,  636,  673,  707,  741,
     775,  813,  851,  889,  927,  965, 1001, 1037, 1073, 1109,
    1145, 1169, 1190, 1211, 1232, 1256, 1280, 1304, 1319, 1334,
    1349, 1364, 1379, 1398, 1407, 1420, 1433, 1442, 1452, 1459,
    1466, 1473, 1480, 1487, 1494, 1501, 1508, 1515, 1522, 1529,
    1536, 1543, 1550, 1557, 1564, 1571, 1578, 1585, 1592, 1599,
    1606, 1613, 1620, 1627, 1634, 1641>>

\* C2 mutant: entry 36 loses the repetition flag of its second action, and
\* so offers a reduce and a shift for one lookahead
ts_parse_actions_0_39_C2 ==
  (0 :> ENTRY(0, FALSE, <<>>)) @@
  (1 :> ENTRY(1, FALSE, <<RECOVER>>)) @@
  (3 :> ENTRY(1, FALSE, <<SHIFT_EXTRA>>)) @@
  (5 :> ENTRY(1, TRUE, <<REDUCE(sym_document, 0, 0, 0)>>)) @@
  (7 :> ENTRY(1, TRUE, <<SHIFT_EXTRA>>)) @@
  (9 :> ENTRY(1, TRUE, <<SHIFT(45)>>)) @@
  (11 :> ENTRY(1, TRUE, <<SHIFT(75)>>)) @@
  (13 :> ENTRY(1, TRUE, <<SHIFT(64)>>)) @@
  (15 :> ENTRY(1, TRUE, <<SHIFT(74)>>)) @@
  (17 :> ENTRY(1, TRUE, <<REDUCE(sym_property, 3, 0, 6)>>)) @@
  (19 :> ENTRY(1, FALSE, <<REDUCE(sym_property, 3, 0, 6)>>)) @@
  (21 :> ENTRY(1, TRUE, <<SHIFT(81)>>)) @@
  (23 :> ENTRY(1, FALSE, <<SHIFT(14)>>)) @@
  (25 :> ENTRY(1, TRUE, <<SHIFT(3)>>)) @@
  (27 :> ENTRY(1, TRUE, <<SHIFT(90)>>)) @@
  (29 :> ENTRY(1, TRUE, <<REDUCE(aux_sym_property_repeat1, 2, 0, 0)>>)) @@
  (31 :> ENTRY(1, FALSE, <<REDUCE(aux_sym_property_repeat1, 2, 0, 0)>>)) @@
  (33 :> ENTRY(2, TRUE, <<REDUCE(aux_sym_property_repeat1, 2, 0, 0), SHIFT_REPEAT(81)>>)) @@
  (36 :> ENTRY(2, FALSE, <<REDUCE(aux_sym_property_repeat1, 2, 0, 0), SHIFT(14)>>)) @@
  (39 :> ENTRY(2, TRUE, <<REDUCE(aux_sym_property_repeat1, 2, 0, 0), SHIFT_REPEAT(3)>>))

\* ---- ts_parse_actions: entry index :> the entry header and its actions
ts_parse_actions_0_39 ==
  (0 :> ENTRY(0, FALSE, <<>>)) @@
  (1 :> ENTRY(1, FALSE, <<RECOVER>>)) @@
  (3 :> ENTRY(1, FALSE, <<SHIFT_EXTRA>>)) @@
  (5 :> ENTRY(1, TRUE, <<REDUCE(sym_document, 0, 0, 0)>>)) @@
  (7 :> ENTRY(1, TRUE, <<SHIFT_EXTRA>>)) @@
  (9 :> ENTRY(1, TRUE, <<SHIFT(45)>>)) @@
  (11 :> ENTRY(1, TRUE, <<SHIFT(75)>>)) @@
  (13 :> ENTRY(1, TRUE, <<SHIFT(64)>>)) @@
  (15 :> ENTRY(1, TRUE, <<SHIFT(74)>>)) @@
  (17 :> ENTRY(1, TRUE, <<REDUCE(sym_property, 3, 0, 6)>>)) @@
  (19 :> ENTRY(1, FALSE, <<REDUCE(sym_property, 3, 0, 6)>>)) @@
  (21 :> ENTRY(1, TRUE, <<SHIFT(81)>>)) @@
  (23 :> ENTRY(1, FALSE, <<SHIFT(14)>>)) @@
  (25 :> ENTRY(1, TRUE, <<SHIFT(3)>>)) @@
  (27 :> ENTRY(1, TRUE, <<SHIFT(90)>>)) @@
  (29 :> ENTRY(1, TRUE, <<REDUCE(aux_sym_property_repeat1, 2, 0, 0)>>)) @@
  (31 :> ENTRY(1, FALSE, <<REDUCE(aux_sym_property_repeat1, 2, 0, 0)>>)) @@
  (33 :> ENTRY(2, TRUE, <<REDUCE(aux_sym_property_repeat1, 2, 0, 0), SHIFT_REPEAT(81)>>)) @@
  (36 :> ENTRY(2, FALSE, <<REDUCE(aux_sym_property_repeat1, 2, 0, 0), SHIFT_REPEAT(14)>>)) @@
  (39 :> ENTRY(2, TRUE, <<REDUCE(aux_sym_property_repeat1, 2, 0, 0), SHIFT_REPEAT(3)>>))

\* C30 mutant: entry 45 reduces an annotation of three children where the
\* stack holds the `##` alone above the start state
ts_parse_actions_42_86_C30 ==
  (42 :> ENTRY(2, TRUE, <<REDUCE(aux_sym_property_repeat1, 2, 0, 0), SHIFT_REPEAT(90)>>)) @@
  (45 :> ENTRY(1, FALSE, <<REDUCE(sym_annotation, 3, 0, 0)>>)) @@
  (47 :> ENTRY(1, FALSE, <<SHIFT(25)>>)) @@
  (49 :> ENTRY(1, FALSE, <<SHIFT(79)>>)) @@
  (51 :> ENTRY(1, FALSE, <<SHIFT(83)>>)) @@
  (53 :> ENTRY(1, TRUE, <<SHIFT(4)>>)) @@
  (55 :> ENTRY(1, TRUE, <<SHIFT(24)>>)) @@
  (57 :> ENTRY(1, FALSE, <<SHIFT(73)>>)) @@
  (59 :> ENTRY(1, TRUE, <<SHIFT(73)>>)) @@
  (61 :> ENTRY(1, TRUE, <<SHIFT(65)>>)) @@
  (63 :> ENTRY(2, TRUE, <<REDUCE(aux_sym_node_declaration_repeat1, 2, 0, 0), SHIFT_REPEAT(4)>>)) @@
  (66 :> ENTRY(1, TRUE, <<REDUCE(aux_sym_node_declaration_repeat1, 2, 0, 0)>>)) @@
  (68 :> ENTRY(2, TRUE, <<REDUCE(aux_sym_node_declaration_repeat1, 2, 0, 0), SHIFT_REPEAT(64)>>)) @@
  (71 :> ENTRY(2, FALSE, <<REDUCE(aux_sym_node_declaration_repeat1, 2, 0, 0), SHIFT_REPEAT(73)>>)) @@
  (74 :> ENTRY(2, TRUE, <<REDUCE(aux_sym_node_declaration_repeat1, 2, 0, 0), SHIFT_REPEAT(73)>>)) @@
  (77 :> ENTRY(2, TRUE, <<REDUCE(aux_sym_node_declaration_repeat1, 2, 0, 0), SHIFT_REPEAT(65)>>)) @@
  (80 :> ENTRY(1, TRUE, <<SHIFT(26)>>)) @@
  (82 :> ENTRY(1, TRUE, <<SHIFT(23)>>)) @@
  (84 :> ENTRY(1, TRUE, <<SHIFT(21)>>)) @@
  (86 :> ENTRY(1, TRUE, <<SHIFT(20)>>))

ts_parse_actions_42_86 ==
  (42 :> ENTRY(2, TRUE, <<REDUCE(aux_sym_property_repeat1, 2, 0, 0), SHIFT_REPEAT(90)>>)) @@
  (45 :> ENTRY(1, FALSE, <<REDUCE(sym_annotation, 1, 0, 0)>>)) @@
  (47 :> ENTRY(1, FALSE, <<SHIFT(25)>>)) @@
  (49 :> ENTRY(1, FALSE, <<SHIFT(79)>>)) @@
  (51 :> ENTRY(1, FALSE, <<SHIFT(83)>>)) @@
  (53 :> ENTRY(1, TRUE, <<SHIFT(4)>>)) @@
  (55 :> ENTRY(1, TRUE, <<SHIFT(24)>>)) @@
  (57 :> ENTRY(1, FALSE, <<SHIFT(73)>>)) @@
  (59 :> ENTRY(1, TRUE, <<SHIFT(73)>>)) @@
  (61 :> ENTRY(1, TRUE, <<SHIFT(65)>>)) @@
  (63 :> ENTRY(2, TRUE, <<REDUCE(aux_sym_node_declaration_repeat1, 2, 0, 0), SHIFT_REPEAT(4)>>)) @@
  (66 :> ENTRY(1, TRUE, <<REDUCE(aux_sym_node_declaration_repeat1, 2, 0, 0)>>)) @@
  (68 :> ENTRY(2, TRUE, <<REDUCE(aux_sym_node_declaration_repeat1, 2, 0, 0), SHIFT_REPEAT(64)>>)) @@
  (71 :> ENTRY(2, FALSE, <<REDUCE(aux_sym_node_declaration_repeat1, 2, 0, 0), SHIFT_REPEAT(73)>>)) @@
  (74 :> ENTRY(2, TRUE, <<REDUCE(aux_sym_node_declaration_repeat1, 2, 0, 0), SHIFT_REPEAT(73)>>)) @@
  (77 :> ENTRY(2, TRUE, <<REDUCE(aux_sym_node_declaration_repeat1, 2, 0, 0), SHIFT_REPEAT(65)>>)) @@
  (80 :> ENTRY(1, TRUE, <<SHIFT(26)>>)) @@
  (82 :> ENTRY(1, TRUE, <<SHIFT(23)>>)) @@
  (84 :> ENTRY(1, TRUE, <<SHIFT(21)>>)) @@
  (86 :> ENTRY(1, TRUE, <<SHIFT(20)>>))

ts_parse_actions_88_130 ==
  (88 :> ENTRY(1, TRUE, <<SHIFT(22)>>)) @@
  (90 :> ENTRY(1, TRUE, <<SHIFT(28)>>)) @@
  (92 :> ENTRY(1, TRUE, <<SHIFT(29)>>)) @@
  (94 :> ENTRY(1, TRUE, <<REDUCE(sym__value_item, 1, 0, 0)>>)) @@
  (96 :> ENTRY(1, FALSE, <<REDUCE(sym__value_item, 1, 0, 0)>>)) @@
  (98 :> ENTRY(1, TRUE, <<SHIFT(59)>>)) @@
  (100 :> ENTRY(1, TRUE, <<REDUCE(sym_string, 3, 0, 0)>>)) @@
  (102 :> ENTRY(1, FALSE, <<REDUCE(sym_string, 3, 0, 0)>>)) @@
  (104 :> ENTRY(1, TRUE, <<REDUCE(sym_node_id, 2, 0, 0)>>)) @@
  (106 :> ENTRY(1, FALSE, <<REDUCE(sym_node_id, 2, 0, 0)>>)) @@
  (108 :> ENTRY(1, TRUE, <<REDUCE(sym_key_value_pair, 3, 0, 0)>>)) @@
  (110 :> ENTRY(1, FALSE, <<REDUCE(sym_key_value_pair, 3, 0, 0)>>)) @@
  (112 :> ENTRY(2, TRUE, <<REDUCE(aux_sym_property_repeat1, 2, 0, 0), SHIFT_REPEAT(88)>>)) @@
  (115 :> ENTRY(2, FALSE, <<REDUCE(aux_sym_property_repeat1, 2, 0, 0), SHIFT_REPEAT(34)>>)) @@
  (118 :> ENTRY(2, TRUE, <<REDUCE(aux_sym_property_repeat1, 2, 0, 0), SHIFT_REPEAT(19)>>)) @@
  (121 :> ENTRY(2, TRUE, <<REDUCE(aux_sym_property_repeat1, 2, 0, 0), SHIFT_REPEAT(93)>>)) @@
  (124 :> ENTRY(1, TRUE, <<REDUCE(sym_node_declaration, 4, 0, 1)>>)) @@
  (126 :> ENTRY(1, FALSE, <<REDUCE(sym_node_declaration, 4, 0, 1)>>)) @@
  (128 :> ENTRY(1, TRUE, <<REDUCE(sym_node_declaration, 4, 0, 4)>>)) @@
  (130 :> ENTRY(1, FALSE, <<REDUCE(sym_node_declaration, 4, 0, 4)>>))

ts_parse_actions_132_170 ==
  (132 :> ENTRY(1, TRUE, <<REDUCE(sym_node_declaration, 3, 0, 1)>>)) @@
  (134 :> ENTRY(1, FALSE, <<REDUCE(sym_node_declaration, 3, 0, 1)>>)) @@
  (136 :> ENTRY(1, TRUE, <<REDUCE(sym_node_declaration, 5, 0, 7)>>)) @@
  (138 :> ENTRY(1, FALSE, <<REDUCE(sym_node_declaration, 5, 0, 7)>>)) @@
  (140 :> ENTRY(1, TRUE, <<REDUCE(sym_node_declaration, 4, 0, 5)>>)) @@
  (142 :> ENTRY(1, FALSE, <<REDUCE(sym_node_declaration, 4, 0, 5)>>)) @@
  (144 :> ENTRY(1, TRUE, <<REDUCE(sym_annotation, 2, 0, 0)>>)) @@
  (146 :> ENTRY(1, FALSE, <<REDUCE(sym_annotation, 2, 0, 0)>>)) @@
  (148 :> ENTRY(1, TRUE, <<REDUCE(sym_node_declaration, 5, 0, 4)>>)) @@
  (150 :> ENTRY(1, FALSE, <<REDUCE(sym_node_declaration, 5, 0, 4)>>)) @@
  (152 :> ENTRY(1, TRUE, <<REDUCE(sym_annotation_typed, 3, 0, 2)>>)) @@
  (154 :> ENTRY(1, FALSE, <<REDUCE(sym_annotation_typed, 3, 0, 2)>>)) @@
  (156 :> ENTRY(1, TRUE, <<REDUCE(sym_node_declaration, 5, 0, 5)>>)) @@
  (158 :> ENTRY(1, FALSE, <<REDUCE(sym_node_declaration, 5, 0, 5)>>)) @@
  (160 :> ENTRY(1, TRUE, <<REDUCE(sym_node_declaration, 6, 0, 7)>>)) @@
  (162 :> ENTRY(1, FALSE, <<REDUCE(sym_node_declaration, 6, 0, 7)>>)) @@
  (164 :> ENTRY(1, TRUE, <<SHIFT(88)>>)) @@
  (166 :> ENTRY(1, FALSE, <<SHIFT(34)>>)) @@
  (168 :> ENTRY(1, TRUE, <<SHIFT(19)>>)) @@
  (170 :> ENTRY(1, TRUE, <<SHIFT(93)>>))

ts_parse_actions_172_212 ==
  (172 :> ENTRY(1, TRUE, <<REDUCE(sym_node_body_item, 1, 0, 0)>>)) @@
  (174 :> ENTRY(1, FALSE, <<REDUCE(sym_node_body_item, 1, 0, 0)>>)) @@
  (176 :> ENTRY(1, TRUE, <<REDUCE(sym_anim_block, 4, 0, 9)>>)) @@
  (178 :> ENTRY(1, FALSE, <<REDUCE(sym_anim_block, 4, 0, 9)>>)) @@
  (180 :> ENTRY(1, TRUE, <<REDUCE(sym_anim_block, 5, 0, 9)>>)) @@
  (182 :> ENTRY(1, FALSE, <<REDUCE(sym_anim_block, 5, 0, 9)>>)) @@
  (184 :> ENTRY(1, TRUE, <<SHIFT(58)>>)) @@
  (186 :> ENTRY(1, TRUE, <<SHIFT(55)>>)) @@
  (188 :> ENTRY(1, TRUE, <<SHIFT(33)>>)) @@
  (190 :> ENTRY(1, TRUE, <<REDUCE(aux_sym_style_block_repeat1, 2, 0, 0)>>)) @@
  (192 :> ENTRY(2, FALSE, <<REDUCE(aux_sym_style_block_repeat1, 2, 0, 0), SHIFT_REPEAT(73)>>)) @@
  (195 :> ENTRY(2, TRUE, <<REDUCE(aux_sym_style_block_repeat1, 2, 0, 0), SHIFT_REPEAT(73)>>)) @@
  (198 :> ENTRY(1, TRUE, <<SHIFT(32)>>)) @@
  (200 :> ENTRY(1, TRUE, <<SHIFT(56)>>)) @@
  (202 :> ENTRY(1, TRUE, <<REDUCE(sym_constraint_line, 5, 0, 8)>>)) @@
  (204 :> ENTRY(1, FALSE, <<REDUCE(sym_constraint_line, 5, 0, 8)>>)) @@
  (206 :> ENTRY(1, TRUE, <<SHIFT(85)>>)) @@
  (208 :> ENTRY(1, FALSE, <<SHIFT(48)>>)) @@
  (210 :> ENTRY(1, TRUE, <<SHIFT(44)>>)) @@
  (212 :> ENTRY(1, TRUE, <<SHIFT(92)>>))

\* C14 mutant: entry 260 reduces a style block of five children with
\* production 8, whose field name is child 0, the `style` keyword
ts_parse_actions_214_260_C14 ==
  (214 :> ENTRY(2, TRUE, <<REDUCE(aux_sym_property_repeat1, 2, 0, 0), SHIFT_REPEAT(85)>>)) @@
  (217 :> ENTRY(2, FALSE, <<REDUCE(aux_sym_property_repeat1, 2, 0, 0), SHIFT_REPEAT(48)>>)) @@
  (220 :> ENTRY(2, TRUE, <<REDUCE(aux_sym_property_repeat1, 2, 0, 0), SHIFT_REPEAT(44)>>)) @@
  (223 :> ENTRY(2, TRUE, <<REDUCE(aux_sym_property_repeat1, 2, 0, 0), SHIFT_REPEAT(92)>>)) @@
  (226 :> ENTRY(1, TRUE, <<REDUCE(sym_annotation, 1, 0, 0)>>)) @@
  (228 :> ENTRY(1, TRUE, <<REDUCE(aux_sym_document_repeat1, 2, 0, 0)>>)) @@
  (230 :> ENTRY(2, TRUE, <<REDUCE(aux_sym_document_repeat1, 2, 0, 0), SHIFT_REPEAT(45)>>)) @@
  (233 :> ENTRY(2, TRUE, <<REDUCE(aux_sym_document_repeat1, 2, 0, 0), SHIFT_REPEAT(75)>>)) @@
  (236 :> ENTRY(2, TRUE, <<REDUCE(aux_sym_document_repeat1, 2, 0, 0), SHIFT_REPEAT(64)>>)) @@
  (239 :> ENTRY(2, TRUE, <<REDUCE(aux_sym_document_repeat1, 2, 0, 0), SHIFT_REPEAT(74)>>)) @@
  (242 :> ENTRY(1, TRUE, <<REDUCE(sym_document, 1, 0, 0)>>)) @@
  (244 :> ENTRY(1, TRUE, <<SHIFT(57)>>)) @@
  (246 :> ENTRY(1, TRUE, <<SHIFT(48)>>)) @@
  (248 :> ENTRY(1, TRUE, <<SHIFT(43)>>)) @@
  (250 :> ENTRY(1, TRUE, <<SHIFT(14)>>)) @@
  (252 :> ENTRY(1, TRUE, <<SHIFT(2)>>)) @@
  (254 :> ENTRY(1, TRUE, <<SHIFT(34)>>)) @@
  (256 :> ENTRY(1, TRUE, <<SHIFT(30)>>)) @@
  (258 :> ENTRY(1, TRUE, <<REDUCE(sym_style_block, 4, 0, 3)>>)) @@
  (260 :> ENTRY(1, TRUE, <<REDUCE(sym_style_block, 5, 0, 8)>>))

ts_parse_actions_214_260 ==
  (214 :> ENTRY(2, TRUE, <<REDUCE(aux_sym_property_repeat1, 2, 0, 0), SHIFT_REPEAT(85)>>)) @@
  (217 :> ENTRY(2, FALSE, <<REDUCE(aux_sym_property_repeat1, 2, 0, 0), SHIFT_REPEAT(48)>>)) @@
  (220 :> ENTRY(2, TRUE, <<REDUCE(aux_sym_property_repeat1, 2, 0, 0), SHIFT_REPEAT(44)>>)) @@
  (223 :> ENTRY(2, TRUE, <<REDUCE(aux_sym_property_repeat1, 2, 0, 0), SHIFT_REPEAT(92)>>)) @@
  (226 :> ENTRY(1, TRUE, <<REDUCE(sym_annotation, 1, 0, 0)>>)) @@
  (228 :> ENTRY(1, TRUE, <<REDUCE(aux_sym_document_repeat1, 2, 0, 0)>>)) @@
  (230 :> ENTRY(2, TRUE, <<REDUCE(aux_sym_document_repeat1, 2, 0, 0), SHIFT_REPEAT(45)>>)) @@
  (233 :> ENTRY(2, TRUE, <<REDUCE(aux_sym_document_repeat1, 2, 0, 0), SHIFT_REPEAT(75)>>)) @@
  (236 :> ENTRY(2, TRUE, <<REDUCE(aux_sym_document_repeat1, 2, 0, 0), SHIFT_REPEAT(64)>>)) @@
  (239 :> ENTRY(2, TRUE, <<REDUCE(aux_sym_document_repeat1, 2, 0, 0), SHIFT_REPEAT(74)>>)) @@
  (242 :> ENTRY(1, TRUE, <<REDUCE(sym_document, 1, 0, 0)>>)) @@
  (244 :> ENTRY(1, TRUE, <<SHIFT(57)>>)) @@
  (246 :> ENTRY(1, TRUE, <<SHIFT(48)>>)) @@
  (248 :> ENTRY(1, TRUE, <<SHIFT(43)>>)) @@
  (250 :> ENTRY(1, TRUE, <<SHIFT(14)>>)) @@
  (252 :> ENTRY(1, TRUE, <<SHIFT(2)>>)) @@
  (254 :> ENTRY(1, TRUE, <<SHIFT(34)>>)) @@
  (256 :> ENTRY(1, TRUE, <<SHIFT(30)>>)) @@
  (258 :> ENTRY(1, TRUE, <<REDUCE(sym_style_block, 4, 0, 3)>>)) @@
  (260 :> ENTRY(1, TRUE, <<REDUCE(sym_style_block, 5, 0, 3)>>))

\* C12 mutant: entry 272, the action of state 62 for `{` after the shape
\* keyword and the node id, completes the declaration without a body
ts_parse_actions_262_300_C12 ==
  (262 :> ENTRY(1, TRUE, <<SHIFT(50)>>)) @@
  (264 :> ENTRY(1, TRUE, <<SHIFT(37)>>)) @@
  (266 :> ENTRY(1, TRUE, <<SHIFT(17)>>)) @@
  (268 :> ENTRY(1, TRUE, <<SHIFT(11)>>)) @@
  (270 :> ENTRY(1, TRUE, <<SHIFT(83)>>)) @@
  (272 :> ENTRY(1, TRUE, <<REDUCE(sym_node_declaration, 2, 0, 4)>>)) @@
  (274 :> ENTRY(1, FALSE, <<SHIFT(27)>>)) @@
  (276 :> ENTRY(1, TRUE, <<REDUCE(sym_node_kind, 1, 0, 0)>>)) @@
  (278 :> ENTRY(1, TRUE, <<SHIFT(70)>>)) @@
  (280 :> ENTRY(1, TRUE, <<SHIFT(51)>>)) @@
  (282 :> ENTRY(1, TRUE, <<SHIFT(38)>>)) @@
  (284 :> ENTRY(1, TRUE, <<ACCEPT_INPUT>>)) @@
  (286 :> ENTRY(1, TRUE, <<SHIFT(18)>>)) @@
  (288 :> ENTRY(1, TRUE, <<SHIFT(76)>>)) @@
  (290 :> ENTRY(1, TRUE, <<SHIFT(41)>>)) @@
  (292 :> ENTRY(1, TRUE, <<SHIFT(87)>>)) @@
  (294 :> ENTRY(1, TRUE, <<REDUCE(sym_property_name, 1, 0, 0)>>)) @@
  (296 :> ENTRY(1, TRUE, <<SHIFT(61)>>)) @@
  (298 :> ENTRY(1, TRUE, <<SHIFT(67)>>)) @@
  (300 :> ENTRY(1, TRUE, <<REDUCE(sym_anim_trigger, 2, 0, 0)>>))

ts_parse_actions_262_300 ==
  (262 :> ENTRY(1, TRUE, <<SHIFT(50)>>)) @@
  (264 :> ENTRY(1, TRUE, <<SHIFT(37)>>)) @@
  (266 :> ENTRY(1, TRUE, <<SHIFT(17)>>)) @@
  (268 :> ENTRY(1, TRUE, <<SHIFT(11)>>)) @@
  (270 :> ENTRY(1, TRUE, <<SHIFT(83)>>)) @@
  (272 :> ENTRY(1, TRUE, <<SHIFT(9)>>)) @@
  (274 :> ENTRY(1, FALSE, <<SHIFT(27)>>)) @@
  (276 :> ENTRY(1, TRUE, <<REDUCE(sym_node_kind, 1, 0, 0)>>)) @@
  (278 :> ENTRY(1, TRUE, <<SHIFT(70)>>)) @@
  (280 :> ENTRY(1, TRUE, <<SHIFT(51)>>)) @@
  (282 :> ENTRY(1, TRUE, <<SHIFT(38)>>)) @@
  (284 :> ENTRY(1, TRUE, <<ACCEPT_INPUT>>)) @@
  (286 :> ENTRY(1, TRUE, <<SHIFT(18)>>)) @@
  (288 :> ENTRY(1, TRUE, <<SHIFT(76)>>)) @@
  (290 :> ENTRY(1, TRUE, <<SHIFT(41)>>)) @@
  (292 :> ENTRY(1, TRUE, <<SHIFT(87)>>)) @@
  (294 :> ENTRY(1, TRUE, <<REDUCE(sym_property_name, 1, 0, 0)>>)) @@
  (296 :> ENTRY(1, TRUE, <<SHIFT(61)>>)) @@
  (298 :> ENTRY(1, TRUE, <<SHIFT(67)>>)) @@
  (300 :> ENTRY(1, TRUE, <<REDUCE(sym_anim_trigger, 2, 0, 0)>>))

ts_parse_actions_302_334 ==
  (302 :> ENTRY(1, TRUE, <<SHIFT(53)>>)) @@
  (304 :> ENTRY(1, TRUE, <<SHIFT(5)>>)) @@
  (306 :> ENTRY(1, TRUE, <<REDUCE(sym_annotation_keyword, 1, 0, 0)>>)) @@
  (308 :> ENTRY(1, TRUE, <<SHIFT(8)>>)) @@
  (310 :> ENTRY(1, TRUE, <<SHIFT(16)>>)) @@
  (312 :> ENTRY(1, TRUE, <<SHIFT(15)>>)) @@
  (314 :> ENTRY(1, TRUE, <<SHIFT(69)>>)) @@
  (316 :> ENTRY(1, TRUE, <<SHIFT(52)>>)) @@
  (318 :> ENTRY(1, TRUE, <<SHIFT(49)>>)) @@
  (320 :> ENTRY(1, TRUE, <<SHIFT(63)>>)) @@
  (322 :> ENTRY(1, TRUE, <<SHIFT(84)>>)) @@
  (324 :> ENTRY(1, TRUE, <<SHIFT(36)>>)) @@
  (326 :> ENTRY(1, TRUE, <<SHIFT(35)>>)) @@
  (328 :> ENTRY(1, TRUE, <<SHIFT(82)>>)) @@
  (330 :> ENTRY(1, TRUE, <<SHIFT(54)>>)) @@
  (332 :> ENTRY(1, TRUE, <<SHIFT(66)>>)) @@
  (334 :> ENTRY(1, TRUE, <<SHIFT(89)>>))

ts_parse_actions ==
  ts_parse_actions_0_39 @@ ts_parse_actions_42_86 @@ ts_parse_actions_88_130 @@
  ts_parse_actions_132_170 @@ ts_parse_actions_172_212 @@ ts_parse_actions_214_260 @@
  ts_parse_actions_262_300 @@ ts_parse_actions_302_334


\* ======================================================================
\* The input documents
\* ======================================================================
\* ---- the bytes arbitrary input is drawn from: NUL, newline, space, the
\* punctuation of the language, a digit, the keyword w, a letter that is
\* also a hex digit, and a byte outside ASCII
Alphabet ==
  {0, 10, 32, 34, 35, 45, 58, 61, 62, 64, 123, 125, 49, 119, 97, 233}

\* ---- the fixed documents, as byte sequences
\* rect @box1 { width = 10 fill = FF0000 }
DocScenarioA ==
  <<114, 101, 99, 116, 32, 64, 98, 111, 120, 49, 32, 123, 32, 119, 105, 100,
    116, 104, 32, 61, 32, 49, 48, 32, 102, 105, 108, 108, 32, 61, 32, 70,
    70, 48, 48, 48, 48, 32, 125>>
\* rect @box1 { width: 10 fill: #FF0000 }
DocNodeColon ==
  <<114, 101, 99, 116, 32, 64, 98, 111, 120, 49, 32, 123, 32, 119, 105, 100,
    116, 104, 58, 32, 49, 48, 32, 102, 105, 108, 108, 58, 32, 35, 70, 70,
    48, 48, 48, 48, 32, 125>>
\* @accept "looks good"
DocScenarioB ==
  <<64, 97, 99, 99, 101, 112, 116, 32, 34, 108, 111, 111, 107, 115, 32, 103,
    111, 111, 100, 34>>
\* ## accept "looks good"
DocAnnotation ==
  <<35, 35, 32, 97, 99, 99, 101, 112, 116, 32, 34, 108, 111, 111, 107, 115,
    32, 103, 111, 111, 100, 34>>
\* box1 -> box2 : depends_on
DocScenarioC ==
  <<98, 111, 120, 49, 32, 45, 62, 32, 98, 111, 120, 50, 32, 58, 32, 100,
    101, 112, 101, 110, 100, 115, 95, 111, 110>>
\* @box1 -> depends_on: @box2
DocConstraint ==
  <<64, 98, 111, 120, 49, 32, 45, 62, 32, 100, 101, 112, 101, 110, 100, 115,
    95, 111, 110, 58, 32, 64, 98, 111, 120, 50>>
\* group @g { anim: on_hover { opacity = 50 } }
DocScenarioD ==
  <<103, 114, 111, 117, 112, 32, 64, 103, 32, 123, 32, 97, 110, 105, 109, 58,
    32, 111, 110, 95, 104, 111, 118, 101, 114, 32, 123, 32, 111, 112, 97, 99,
    105, 116, 121, 32, 61, 32, 53, 48, 32, 125, 32, 125>>
\* group @g { anim: on_hover { opacity: 50 } }
DocAnimColon ==
  <<103, 114, 111, 117, 112, 32, 64, 103, 32, 123, 32, 97, 110, 105, 109, 58,
    32, 111, 110, 95, 104, 111, 118, 101, 114, 32, 123, 32, 111, 112, 97, 99,
    105, 116, 121, 58, 32, 53, 48, 32, 125, 32, 125>>
\* rect @box1 { width = }
DocScenarioE ==
  <<114, 101, 99, 116, 32, 64, 98, 111, 120, 49, 32, 123, 32, 119, 105, 100,
    116, 104, 32, 61, 32, 125>>
\* text @t "abc
DocTruncated ==
  <<116, 101, 120, 116, 32, 64, 116, 32, 34, 97, 98, 99>>
\* rect { }
DocAnonymous ==
  <<114, 101, 99, 116, 32, 123, 32, 125>>
\* text "hi" { w: 1 }
DocInlineText ==
  <<116, 101, 120, 116, 32, 34, 104, 105, 34, 32, 123, 32, 119, 58, 32, 49,
    32, 125>>
\* rect @a { w = 1 } path @b { }
DocResume ==
  <<114, 101, 99, 116, 32, 64, 97, 32, 123, 32, 119, 32, 61, 32, 49, 32,
    125, 32, 112, 97, 116, 104, 32, 64, 98, 32, 123, 32, 125>>
\* rect @a { w: 1 } ellipse @b { } text @c { }
DocSeveral ==
  <<114, 101, 99, 116, 32, 64, 97, 32, 123, 32, 119, 58, 32, 49, 32, 125,
    32, 101, 108, 108, 105, 112, 115, 101, 32, 64, 98, 32, 123, 32, 125, 32,
    116, 101, 120, 116, 32, 64, 99, 32, 123, 32, 125>>
\* 
DocEmpty ==
  <<>>
\* @a -> t: 1 @c -> t: 2
DocTwoConstraints ==
  <<64, 97, 32, 45, 62, 32, 116, 58, 32, 49, 32, 64, 99, 32, 45, 62,
    32, 116, 58, 32, 50>>
\* rect @a
DocNoBody ==
  <<114, 101, 99, 116, 32, 64, 97>>
\* rect @a rect @b { }
DocNoBodyThen ==
  <<114, 101, 99, 116, 32, 64, 97, 32, 114, 101, 99, 116, 32, 64, 98, 32,
    123, 32, 125>>
\* rect @a { style s { } }
DocStyleInBody ==
  <<114, 101, 99, 116, 32, 64, 97, 32, 123, 32, 115, 116, 121, 108, 101, 32,
    115, 32, 123, 32, 125, 32, 125>>
\* text "t" { style s { } rect @b { } }
DocStyleInText ==
  <<116, 101, 120, 116, 32, 34, 116, 34, 32, 123, 32, 115, 116, 121, 108, 101,
    32, 115, 32, 123, 32, 125, 32, 114, 101, 99, 116, 32, 64, 98, 32, 123,
    32, 125, 32, 125>>
\* rect @a { @b -> t: 1 }
DocConstraintInBody ==
  <<114, 101, 99, 116, 32, 64, 97, 32, 123, 32, 64, 98, 32, 45, 62, 32,
    116, 58, 32, 49, 32, 125>>
\* style s { rect @b { } }
DocNodeInStyle ==
  <<115, 116, 121, 108, 101, 32, 115, 32, 123, 32, 114, 101, 99, 116, 32, 64,
    98, 32, 123, 32, 125, 32, 125>>
\* rect @a { anim :h { rect @b { } } }
DocNodeInAnim ==
  <<114, 101, 99, 116, 32, 64, 97, 32, 123, 32, 97, 110, 105, 109, 32, 58,
    104, 32, 123, 32, 114, 101, 99, 116, 32, 64, 98, 32, 123, 32, 125, 32,
    125, 32, 125>>
\* rect @a { rect @b { rect @c { } } }
DocNested ==
  <<114, 101, 99, 116, 32, 64, 97, 32, 123, 32, 114, 101, 99, 116, 32, 64,
    98, 32, 123, 32, 114, 101, 99, 116, 32, 64, 99, 32, 123, 32, 125, 32,
    125, 32, 125>>
\* rect @a { w: 1 ## n\nanim :h { } rect @b { } h: 2 }
DocBodyItems ==
  <<114, 101, 99, 116, 32, 64, 97, 32, 123, 32, 119, 58, 32, 49, 32, 35,
    35, 32, 110, 10, 97, 110, 105, 109, 32, 58, 104, 32, 123, 32, 125, 32,
    114, 101, 99, 116, 32, 64, 98, 32, 123, 32, 125, 32, 104, 58, 32, 50,
    32, 125>>
\* style s { }
DocStyleEmpty ==
  <<115, 116, 121, 108, 101, 32, 115, 32, 123, 32, 125>>
\* style card { w: 1 fill: #fff }
DocStyle ==
  <<115, 116, 121, 108, 101, 32, 99, 97, 114, 100, 32, 123, 32, 119, 58, 32,
    49, 32, 102, 105, 108, 108, 58, 32, 35, 102, 102, 102, 32, 125>>
\* rect @a { fill: #fff a 1 "s" @n k=1 }
DocValues ==
  <<114, 101, 99, 116, 32, 64, 97, 32, 123, 32, 102, 105, 108, 108, 58, 32,
    35, 102, 102, 102, 32, 97, 32, 49, 32, 34, 115, 34, 32, 64, 110, 32,
    107, 61, 49, 32, 125>>
\* rect @a { w: 1 2 }
DocTwoValues ==
  <<114, 101, 99, 116, 32, 64, 97, 32, 123, 32, 119, 58, 32, 49, 32, 50,
    32, 125>>
\* rect @a { w: }
DocNoValue ==
  <<114, 101, 99, 116, 32, 64, 97, 32, 123, 32, 119, 58, 32, 125>>
\* style fill { } rect @rect { anim :accept { } } @style -> anim: 1
DocKeywordIds ==
  <<115, 116, 121, 108, 101, 32, 102, 105, 108, 108, 32, 123, 32, 125, 32, 114,
    101, 99, 116, 32, 64, 114, 101, 99, 116, 32, 123, 32, 97, 110, 105, 109,
    32, 58, 97, 99, 99, 101, 112, 116, 32, 123, 32, 125, 32, 125, 32, 64,
    115, 116, 121, 108, 101, 32, 45, 62, 32, 97, 110, 105, 109, 58, 32, 49>>
\* rect @a { widthx: 1 }
DocLongerWord ==
  <<114, 101, 99, 116, 32, 64, 97, 32, 123, 32, 119, 105, 100, 116, 104, 120,
    58, 32, 49, 32, 125>>
\* ## n\nrect @a { }
DocAnnotatedNode ==
  <<35, 35, 32, 110, 10, 114, 101, 99, 116, 32, 64, 97, 32, 123, 32, 125>>
\* ## "a"
DocQuotedAnnotation ==
  <<35, 35, 32, 34, 97, 34>>
\* text "" { }
DocEmptyString ==
  <<116, 101, 120, 116, 32, 34, 34, 32, 123, 32, 125>>
\* ##accept\n:x
DocTypedAnnotation ==
  <<35, 35, 97, 99, 99, 101, 112, 116, 10, 58, 120>>
\* rect @a { w: 1 }
DocUncommented ==
  <<114, 101, 99, 116, 32, 64, 97, 32, 123, 32, 119, 58, 32, 49, 32, 125>>
\* rect @a #c\n{ w: 1 #d\n}
DocCommented ==
  <<114, 101, 99, 116, 32, 64, 97, 32, 35, 99, 10, 123, 32, 119, 58, 32,
    49, 32, 35, 100, 10, 125>>
\* style s { w: k="s" j=#fff i=k } @a -> t: k=1
DocPairs ==
  <<115, 116, 121, 108, 101, 32, 115, 32, 123, 32, 119, 58, 32, 107, 61, 34,
    115, 34, 32, 106, 61, 35, 102, 102, 102, 32, 105, 61, 107, 32, 125, 32,
    64, 97, 32, 45, 62, 32, 116, 58, 32, 107, 61, 49>>
\* rect @a { w: k= }
DocPairNoValue ==
  <<114, 101, 99, 116, 32, 64, 97, 32, 123, 32, 119, 58, 32, 107, 61, 32,
    125>>

Corpus ==
  {DocScenarioA, DocNodeColon, DocScenarioB, DocAnnotation,
   DocScenarioC, DocConstraint, DocScenarioD, DocAnimColon,
   DocScenarioE, DocTruncated, DocAnonymous, DocInlineText,
   DocResume, DocSeveral, DocEmpty, DocTwoConstraints,
   DocNoBody, DocNoBodyThen, DocStyleInBody, DocStyleInText,
   DocConstraintInBody, DocNodeInStyle, DocNodeInAnim, DocNested,
   DocBodyItems, DocStyleEmpty, DocStyle, DocValues,
   DocTwoValues, DocNoValue, DocKeywordIds, DocLongerWord,
   DocAnnotatedNode, DocQuotedAnnotation, DocEmptyString, DocTypedAnnotation,
   DocUncommented, DocCommented, DocPairs, DocPairNoValue}

\* ---- the beginnings that arbitrary bytes continue
\* 
StemEmpty ==
  <<>>
\* rect @a {
StemNode ==
  <<114, 101, 99, 116, 32, 64, 97, 32, 123>>
\* path {
StemAnonymous ==
  <<112, 97, 116, 104, 32, 123>>
\* rect @a { w: 1
StemProperty ==
  <<114, 101, 99, 116, 32, 64, 97, 32, 123, 32, 119, 58, 32, 49>>
\* text @t "a
StemText ==
  <<116, 101, 120, 116, 32, 64, 116, 32, 34, 97>>
\* @a ->
StemConstraint ==
  <<64, 97, 32, 45, 62>>
\* ##
StemAnnotation ==
  <<35, 35>>
\* group @g { anim :a {
StemAnim ==
  <<103, 114, 111, 117, 112, 32, 64, 103, 32, 123, 32, 97, 110, 105, 109, 32,
    58, 97, 32, 123>>

Stems ==
  {StemEmpty, StemNode, StemAnonymous, StemProperty,
   StemText, StemConstraint, StemAnnotation, StemAnim}

\* ---- the inputs of the lexer taken alone: the bytes of numbers, colours
\* and comments (NUL, newline, space, `#`, `-`, `.`, a digit, a hex letter,
\* `m`, `s`) continue the beginnings below
LexAlphabet == {0, 10, 32, 35, 45, 46, 49, 97, 109, 115}
LexLen == 3
\* 
LexStemEmpty == <<>>
\* #a
LexStemHash == <<35, 97>>
\* #a1a1a1
LexStemColour == <<35, 97, 49, 97, 49, 97, 49>>
\* -1.1
LexStemNumber == <<45, 49, 46, 49>>
\* tab, vertical tab, carriage return
LexStemBlank == <<9, 11, 13>>
LexStems == {LexStemEmpty, LexStemHash, LexStemColour, LexStemNumber, LexStemBlank}

UsedBytes ==
  Alphabet \cup LexAlphabet
    \cup UNION {{d[i] : i \in 1..Len(d)} : d \in Corpus \cup Stems \cup LexStems}

\* ======================================================================
\* Table access (the engine's view of the tables)
\* ======================================================================
Range(s) == {s[i] : i \in 1..Len(s)}

\* The value a large-state row holds for a symbol (0 where the row has none)
RowValue(row, symbol) ==
  LET hits == {i \in 1..Len(row) : row[i][1] = symbol}
  IN  IF hits = {} THEN 0 ELSE row[CHOOSE i \in hits : \A k \in hits : i <= k][2]

\* The value of the first group of a small-state row that lists the symbol
GroupValue(groups, symbol) ==
  LET hits == {i \in 1..Len(groups) : symbol \in Range(groups[i][2])}
  IN  IF hits = {} THEN 0 ELSE groups[CHOOSE i \in hits : \A k \in hits : i <= k][1]

ts_lookup(state, symbol) ==
  IF state < LARGE_STATE_COUNT
  THEN RowValue(ts_parse_table[state + 1], symbol)
  ELSE GroupValue(ts_small_parse_table[ts_small_parse_table_map[state - LARGE_STATE_COUNT + 1]], symbol)

States == 0..(STATE_COUNT - 1)
Symbols == 0..(SYMBOL_COUNT - 1)
Terminals == 0..(TOKEN_COUNT - 1)
ts_builtin_sym_error == 65535

LookupTable == [s \in States |-> [y \in Symbols |-> ts_lookup(s, y)]]

\* The table entry of (state, terminal); the error token has no entry
TableEntry(state, symbol) ==
  IF symbol \in Terminals THEN ts_parse_actions[LookupTable[state][symbol]]
  ELSE ENTRY(0, FALSE, <<>>)

\* The actions the engine may take as a step: a SHIFT_REPEAT only tells an
\* incremental re-parse that a repetition continues, it is never a step
StepTable ==
  [s \in States |-> [y \in Terminals |->
      {a \in Range(TableEntry(s, y).actions) : ~a.repetition}]]
StepActions(state, symbol) ==
  IF symbol \in Terminals THEN StepTable[state][symbol] ELSE {}

NextState(state, symbol) == LookupTable[state][symbol]

\* One iteration of ts_lex for every (state, byte); 256 stands for end of input
LexTable ==
  [s \in 0..484 |-> [c \in UsedBytes \cup {256} |->
      ts_lex_switch(s, IF c = 256 THEN 0 ELSE c, c = 256)]]

\* ======================================================================
\* The state of one parse call
\* ======================================================================
VARIABLES
  input,          \* the document, or the beginning arbitrary bytes continue
  bytes,          \* the bytes the arbitrary continuation is drawn from
  buf,            \* the bytes of the input from offset pos on, as far as read
  pos,            \* offset of the first byte not yet consumed by a token
  closed,         \* whether the end of the input follows buf
  room,           \* how many more arbitrary bytes may follow buf
  keep,           \* whether the whole tree is kept (fixed documents)
  pc,             \* "parse" | "lex" | "done"
  lex_state,      \* ts_lex: state
  cur,            \* ts_lex: bytes advanced over since pos
  tok_start,      \* ts_lex: where the token starts (after SKIPs), from pos
  result,         \* ts_lex: result
  result_symbol,  \* ts_lex: lexer->result_symbol
  tok_end,        \* ts_lex: the marked end of the token, from pos
  la,             \* the lookahead token, or NoToken
  stack,          \* the parse stack: entries [state, node]
  recovering,     \* whether the engine is in recovery (error state 0)
  diagnostics,    \* number of syntax-error diagnostics emitted
  missing,        \* number of synthetic "missing" placeholders inserted
  comments,       \* number of extra (comment) tokens shifted
  outcome,        \* "" | "accepted" | "recovered" | "aborted"
  last            \* the step just taken

lexvars == <<lex_state, cur, tok_start, result, result_symbol, tok_end>>
vars == <<input, bytes, buf, pos, closed, room, keep, pc, lex_state, cur, tok_start, result,
          result_symbol, tok_end, la, stack, recovering, diagnostics,
          missing, comments, outcome, last>>

NoToken == [sym |-> ts_builtin_sym_error, start |-> 0 - 1, end |-> 0 - 1]
Step(k, y, s, n, p, kids, a, b) ==
  [kind |-> k, sym |-> y, state |-> s, n |-> n, prod |-> p, kids |-> kids,
   start |-> a, end |-> b]
Leaf(tok) ==
  IF keep THEN [sym |-> tok.sym, start |-> tok.start, end |-> tok.end, prod |-> 0, kids |-> <<>>]
  ELSE [sym |-> tok.sym, start |-> 0, end |-> 0, prod |-> 0, kids |-> <<>>]
Node(y, p, kids, at) ==
  IF keep
  THEN [sym |-> y, prod |-> p, kids |-> kids,
        start |-> IF kids = <<>> THEN at ELSE kids[1].start,
        end |-> IF kids = <<>> THEN at ELSE kids[Len(kids)].end]
  ELSE [sym |-> y, start |-> 0, end |-> 0, prod |-> p, kids |-> <<>>]

Top == stack[Len(stack)]
\* The state whose table row and lex mode apply: the error state 0 while recovering
CurState == IF recovering THEN 0 ELSE Top.state

Init ==
  /\ \/ input \in Corpus /\ closed = TRUE /\ keep = TRUE /\ room = 0
     \/ input \in Stems /\ closed = FALSE /\ keep = FALSE /\ room = MaxLen
  /\ bytes = Alphabet
  /\ buf = input
  /\ pos = 0
  /\ pc = "parse"
  /\ lex_state = 0 /\ cur = 0 /\ tok_start = 0 /\ result = FALSE
  /\ result_symbol = 0 /\ tok_end = 0
  /\ la = NoToken
  /\ stack = <<[state |-> 1, node |-> [sym |-> ts_builtin_sym_error, start |-> 0, end |-> 0, prod |-> 0, kids |-> <<>>]]>>
  /\ recovering = FALSE
  /\ diagnostics = 0
  /\ missing = 0
  /\ comments = 0
  /\ outcome = ""
  /\ last = Step("init", 0, 1, 0, 0, <<>>, 0, 0)

\* ======================================================================
\* The lexer: ts_lex, one loop iteration per step
\* ======================================================================
\* What the lexer can see at its cursor: a byte already read, the end of
\* the input, or (arbitrary input) any next byte
Observations ==
  IF cur < Len(buf)
  THEN {[byte |-> buf[cur + 1], eof |-> FALSE, buf |-> buf, closed |-> closed, room |-> room]}
  ELSE {[byte |-> 0, eof |-> TRUE, buf |-> buf, closed |-> TRUE, room |-> 0]}
       \cup IF ~closed /\ room > 0
            THEN {[byte |-> b, eof |-> FALSE, buf |-> Append(buf, b), closed |-> FALSE, room |-> room - 1] : b \in bytes}
            ELSE {}

LexIteration(o) == LexTable[lex_state][IF o.eof THEN 256 ELSE o.byte]

\* The engine asks for the next token: ts_lex starts in the lex mode of the state
StartLex ==
  /\ pc = "parse" /\ la = NoToken
  /\ pc' = "lex"
  /\ lex_state' = ts_lex_modes[CurState + 1]
  /\ cur' = 0 /\ tok_start' = 0 /\ result' = FALSE /\ result_symbol' = 0 /\ tok_end' = 0
  /\ last' = Step("start_lex", 0, CurState, 0, 0, <<>>, pos, pos)
  /\ UNCHANGED <<input, bytes, buf, pos, closed, room, keep, la, stack, recovering, diagnostics, missing, comments, outcome>>

\* ACCEPT_TOKEN (if the case has one), then ADVANCE or SKIP: goto next_state
LexAdvance ==
  /\ pc = "lex"
  /\ \E o \in Observations :
       LET r == LexIteration(o)
           c == IF o.eof THEN cur ELSE cur + 1
       IN  /\ r.kind \in {"advance", "skip"}
           /\ buf' = o.buf /\ closed' = o.closed /\ room' = o.room
           /\ result' = (result \/ r.result)
           /\ result_symbol' = IF r.result THEN r.symbol ELSE result_symbol
           /\ tok_end' = IF r.result THEN cur ELSE tok_end
           /\ cur' = c
           /\ tok_start' = IF r.kind = "skip" THEN c ELSE tok_start
           /\ lex_state' = r.state
           /\ last' = Step(r.kind, 0, r.state, 0, 0, <<>>, pos + cur, pos + c)
  /\ UNCHANGED <<input, bytes, pos, keep, pc, la, stack, recovering, diagnostics, missing, comments, outcome>>

\* ACCEPT_TOKEN (if the case has one), then END_STATE: ts_lex returns result.
\* With no result the engine takes the byte at the token start as a one-byte
\* error token, or the end-of-input marker when no byte is left
LexEnd ==
  /\ pc = "lex"
  /\ \E o \in Observations :
       LET r == LexIteration(o)
           ok == result \/ r.result
           y == IF r.result THEN r.symbol ELSE result_symbol
           e == IF r.result THEN cur ELSE tok_end
           tok == IF ok THEN [sym |-> y, start |-> pos + tok_start, end |-> pos + e]
                  ELSE IF tok_start >= Len(o.buf)
                       THEN [sym |-> ts_builtin_sym_end, start |-> pos + tok_start, end |-> pos + tok_start]
                       ELSE [sym |-> ts_builtin_sym_error, start |-> pos + tok_start, end |-> pos + tok_start + 1]
       IN  /\ r.kind = "end"
           /\ buf' = o.buf /\ closed' = o.closed /\ room' = o.room
           /\ la' = tok
           /\ last' = Step(IF ok THEN "token" ELSE "lex_fail", tok.sym, lex_state, 0, 0, <<>>, tok.start, tok.end)
  /\ pc' = "parse"
  /\ lex_state' = 0 /\ cur' = 0 /\ tok_start' = 0 /\ result' = FALSE
  /\ result_symbol' = 0 /\ tok_end' = 0
  /\ UNCHANGED <<input, bytes, pos, keep, stack, recovering, diagnostics, missing, comments, outcome>>

\* ======================================================================
\* The parser engine (spec.md 4.3)
\* ======================================================================
\* A token is consumed: the input before its end is dropped
Consume(tok) ==
  /\ pos' = tok.end
  /\ buf' = SubSeq(buf, tok.end - pos + 1, Len(buf))
  /\ la' = NoToken

Parsing == pc = "parse" /\ la # NoToken

\* Shift: consume the lookahead, push its symbol and the new state
Shift ==
  /\ Parsing /\ ~recovering
  /\ \E a \in StepActions(CurState, la.sym) :
       /\ a.type = "shift" /\ ~a.extra
       /\ stack' = Append(stack, [state |-> a.state, node |-> Leaf(la)])
       /\ last' = Step("shift", la.sym, a.state, 0, 0, <<>>, la.start, la.end)
  /\ Consume(la)
  /\ UNCHANGED <<input, bytes, closed, room, keep, pc, lexvars, recovering, diagnostics, missing, comments, outcome>>

\* Shift of an extra token (a comment): consumed, the state stays
ShiftExtra ==
  /\ Parsing
  /\ \E a \in StepActions(CurState, la.sym) : a.type = "shift" /\ a.extra
  /\ comments' = comments + 1
  /\ last' = Step("shift_extra", la.sym, CurState, 0, 0, <<>>, la.start, la.end)
  /\ Consume(la)
  /\ UNCHANGED <<input, bytes, closed, room, keep, pc, lexvars, stack, recovering, diagnostics, missing, outcome>>

\* C31 mutant: a Reduce drops the pending lookahead, so that the lexer is
\* asked again in the lex mode of the goto state
Reduce_C31 ==
  /\ Parsing /\ ~recovering
  /\ \E a \in StepActions(CurState, la.sym) :
       /\ a.type = "reduce"
       /\ LET n == a.child_count
              m == Len(stack) - n
              kids == [i \in 1..n |-> stack[m + i].node]
              g == IF m >= 1 THEN NextState(stack[m].state, a.symbol) ELSE 0
          IN  IF m < 1 \/ g = 0
              THEN /\ pc' = "done" /\ outcome' = "aborted"
                   /\ stack' = stack
                   /\ last' = Step("abort", a.symbol, CurState, n, a.production_id, <<>>, la.start, la.start)
              ELSE /\ pc' = pc /\ outcome' = outcome
                   /\ stack' = Append(SubSeq(stack, 1, m),
                                      [state |-> g, node |-> Node(a.symbol, a.production_id, kids, la.start)])
                   /\ last' = Step("reduce", a.symbol, g, n, a.production_id,
                                   [i \in 1..n |-> kids[i].sym], la.start, la.start)
  /\ la' = NoToken
  /\ UNCHANGED <<input, bytes, buf, pos, closed, room, keep, lexvars, recovering, diagnostics, missing, comments>>

\* Reduce: pop child_count entries, build the node, push it with its goto
\* state.  Too few entries, or no goto entry, is a table inconsistency and
\* aborts the call
Reduce ==
  /\ Parsing /\ ~recovering
  /\ \E a \in StepActions(CurState, la.sym) :
       /\ a.type = "reduce"
       /\ LET n == a.child_count
              m == Len(stack) - n
              kids == [i \in 1..n |-> stack[m + i].node]
              g == IF m >= 1 THEN NextState(stack[m].state, a.symbol) ELSE 0
          IN  IF m < 1 \/ g = 0
              THEN /\ pc' = "done" /\ outcome' = "aborted"
                   /\ stack' = stack
                   /\ last' = Step("abort", a.symbol, CurState, n, a.production_id, <<>>, la.start, la.start)
              ELSE /\ pc' = pc /\ outcome' = outcome
                   /\ stack' = Append(SubSeq(stack, 1, m),
                                      [state |-> g, node |-> Node(a.symbol, a.production_id, kids, la.start)])
                   /\ last' = Step("reduce", a.symbol, g, n, a.production_id,
                                   [i \in 1..n |-> kids[i].sym], la.start, la.start)
  /\ UNCHANGED <<input, bytes, buf, pos, closed, room, keep, lexvars, la, recovering, diagnostics, missing, comments>>

\* Accept: the document is complete
Accept ==
  /\ Parsing /\ ~recovering
  /\ \E a \in StepActions(CurState, la.sym) : a.type = "accept"
  /\ pc' = "done" /\ outcome' = "accepted"
  /\ last' = Step("accept", la.sym, CurState, 0, 0, <<>>, la.start, la.end)
  /\ UNCHANGED <<input, bytes, buf, pos, closed, room, keep, lexvars, la, stack, recovering, diagnostics, missing, comments>>

\* Error: no action for the state and the lookahead.  One diagnostic is
\* emitted, a "missing" placeholder is put into the tree at the error point
\* and the engine enters recovery
Error ==
  /\ Parsing /\ ~recovering
  /\ StepActions(CurState, la.sym) = {}
  /\ recovering' = TRUE
  /\ diagnostics' = diagnostics + 1
  /\ missing' = missing + 1
  /\ last' = Step("error", la.sym, CurState, 0, 0, <<>>, la.start, la.end)
  /\ UNCHANGED <<input, bytes, buf, pos, closed, room, keep, pc, lexvars, la, stack, comments, outcome>>

\* The stack depths whose state can shift the symbol
ShiftDepths(y) ==
  {d \in 1..Len(stack) :
     \E a \in StepActions(stack[d].state, y) : a.type = "shift" /\ ~a.extra}

InRecovery ==
  /\ Parsing /\ recovering
  /\ \A a \in StepActions(0, la.sym) : a.type = "recover"

\* Recovery (a): discard a token that no state on the stack can shift
RecoverDiscard ==
  /\ InRecovery
  /\ la.sym # ts_builtin_sym_end
  /\ ShiftDepths(la.sym) = {}
  /\ last' = Step("discard", la.sym, 0, 0, 0, <<>>, la.start, la.end)
  /\ Consume(la)
  /\ UNCHANGED <<input, bytes, closed, room, keep, pc, lexvars, stack, recovering, diagnostics, missing, comments, outcome>>

\* Recovery (b), (c): a synchronizing token is found; pop the stack to the
\* topmost state that can shift it and resume
RecoverPop ==
  /\ InRecovery
  /\ la.sym # ts_builtin_sym_end
  /\ ShiftDepths(la.sym) # {}
  /\ LET d == CHOOSE d \in ShiftDepths(la.sym) : \A k \in ShiftDepths(la.sym) : k <= d
     IN  /\ stack' = SubSeq(stack, 1, d)
         /\ last' = Step("pop", la.sym, stack[d].state, Len(stack) - d, 0, <<>>, la.start, la.end)
  /\ recovering' = FALSE
  /\ UNCHANGED <<input, bytes, buf, pos, closed, room, keep, pc, lexvars, la, diagnostics, missing, comments, outcome>>

\* Recovery at the end of the input: the call returns what was built
RecoverEnd ==
  /\ InRecovery
  /\ la.sym = ts_builtin_sym_end
  /\ pc' = "done" /\ outcome' = "recovered"
  /\ last' = Step("recover_end", la.sym, 0, 0, 0, <<>>, la.start, la.end)
  /\ UNCHANGED <<input, bytes, buf, pos, closed, room, keep, lexvars, la, stack, recovering, diagnostics, missing, comments>>

Next ==
  \/ StartLex \/ LexAdvance \/ LexEnd
  \/ Shift \/ ShiftExtra \/ Reduce \/ Accept
  \/ Error \/ RecoverDiscard \/ RecoverPop \/ RecoverEnd

Spec == Init /\ [][Next]_vars

\* The engine runs a parse call to its end: no step is starved
FairSpec == Spec /\ WF_vars(Next)

\* ======================================================================
\* The lexer taken alone: one call of ts_lex
\* ======================================================================
\* One parse state for every lex mode of ts_lex_modes
ModeStates ==
  {s \in States : \A t \in States : ts_lex_modes[t + 1] = ts_lex_modes[s + 1] => s <= t}

\* ts_lex is called once, in the lex mode of a parse state, at the start of
\* an input that begins as one of LexStems and goes on with at most LexLen
\* bytes of LexAlphabet
LexInit ==
  /\ input \in LexStems /\ closed = FALSE /\ keep = FALSE /\ room = LexLen
  /\ bytes = LexAlphabet
  /\ buf = input
  /\ pos = 0
  /\ pc = "lex"
  /\ \E s \in ModeStates :
       /\ stack = <<[state |-> s, node |-> [sym |-> ts_builtin_sym_error, start |-> 0, end |-> 0, prod |-> 0, kids |-> <<>>]]>>
       /\ lex_state = ts_lex_modes[s + 1]
       /\ last = Step("start_lex", 0, s, 0, 0, <<>>, 0, 0)
  /\ cur = 0 /\ tok_start = 0 /\ result = FALSE
  /\ result_symbol = 0 /\ tok_end = 0
  /\ la = NoToken
  /\ recovering = FALSE
  /\ diagnostics = 0
  /\ missing = 0
  /\ comments = 0
  /\ outcome = ""

LexNext == LexAdvance \/ LexEnd

LexSpec == LexInit /\ [][LexNext]_vars

\* ======================================================================
\* The syntax tree: nodes, fields and text
\* ======================================================================
RECURSIVE NodesOf(_)
NodesOf(n) == {n} \cup UNION {NodesOf(n.kids[i]) : i \in 1..Len(n.kids)}

\* Every node built so far (the stack holds the roots; entry 1 is the bottom)
TreeNodes == UNION {NodesOf(stack[i].node) : i \in 2..Len(stack)}
Built(y) == {n \in TreeNodes : n.sym = y}

\* The field map entries of a production that bind the field
FieldEntries(prod, f) ==
  LET sl == ts_field_map_slices[prod]
  IN  {e \in {ts_field_map_entries[i] : i \in sl.index..(sl.index + sl.length - 1)} :
         e.field_id = f}
HasField(prod, f) == FieldEntries(prod, f) # {}
FieldIndex(prod, f) == (CHOOSE e \in FieldEntries(prod, f) : TRUE).child_index + 1
FieldChild(n, f) == n.kids[FieldIndex(n.prod, f)]

Text(n) == SubSeq(input, n.start + 1, n.end)
Done == pc = "done"
Clean == pc = "done" /\ outcome = "accepted" /\ diagnostics = 0

\* ======================================================================
\* C1  termination
\* ======================================================================
\* C1: for every finite input (arbitrary bytes) a parse call terminates and
\* returns a tree and its diagnostics: no ts_lex call loops without
\* consuming input, the shift-reduce loop does not reduce forever, and the
\* call is never aborted.
C1_Terminates == <>(pc = "done" /\ outcome \in {"accepted", "recovered"})

\* an arbitrary-byte input that ended in recovery: the call has returned
C1_Witness ==
  /\ ~keep /\ room = 0 /\ input = StemEmpty
  /\ pc = "done" /\ outcome = "recovered" /\ diagnostics > 0

\* ======================================================================
\* C2  determinism
\* ======================================================================
\* The states whose row leaves no choice open, whatever the lookahead
SingleStepStates ==
  {s \in States :
     \A y \in Terminals :
       /\ Cardinality(StepActions(s, y)) <= 1
       /\ TableEntry(s, y).count = Len(TableEntry(s, y).actions)}

\* How many kinds of step the engine can take in the current state
EnabledSteps ==
  (IF ENABLED StartLex THEN 1 ELSE 0) + (IF ENABLED LexAdvance THEN 1 ELSE 0)
  + (IF ENABLED LexEnd THEN 1 ELSE 0) + (IF ENABLED Shift THEN 1 ELSE 0)
  + (IF ENABLED ShiftExtra THEN 1 ELSE 0) + (IF ENABLED Reduce THEN 1 ELSE 0)
  + (IF ENABLED Accept THEN 1 ELSE 0) + (IF ENABLED Error THEN 1 ELSE 0)
  + (IF ENABLED RecoverDiscard THEN 1 ELSE 0) + (IF ENABLED RecoverPop THEN 1 ELSE 0)
  + (IF ENABLED RecoverEnd THEN 1 ELSE 0)

\* C2: in every state the parser reaches, and for every lookahead token, the
\* tables select at most one next step: an entry with two actions pairs a
\* REDUCE with a SHIFT_REPEAT, which is not a step.  Once the input is
\* known to its end, exactly one kind of step is possible until the call
\* returns, so that one source has one run, one tree, one list of diagnostics.
C2_SingleStep ==
  /\ pc = "parse" => (CurState \in SingleStepStates /\ Top.state \in SingleStepStates)
  /\ (closed /\ pc # "done") => EnabledSteps = 1

\* the engine stands at an entry with two actions, of which one is a step
C2_Witness ==
  /\ Parsing /\ ~recovering
  /\ TableEntry(CurState, la.sym).count = 2
  /\ Cardinality(StepActions(CurState, la.sym)) = 1

\* ======================================================================
\* C3  node declarations
\* ======================================================================
\* The document parses cleanly to exactly one node_declaration with field
\* kind = the shape keyword, field id = the node id, nprops property nodes,
\* and a hex_color token with the given text
NodeDeclarationParsed(doc, kindText, idText, nprops, hexText) ==
  (input = doc /\ pc = "done") =>
    /\ outcome = "accepted" /\ diagnostics = 0
    /\ Cardinality(Built(sym_node_declaration)) = 1
    /\ \A n \in Built(sym_node_declaration) :
         /\ HasField(n.prod, field_kind)
         /\ FieldChild(n, field_kind).sym = sym_node_kind
         /\ Text(FieldChild(n, field_kind)) = kindText
         /\ HasField(n.prod, field_id)
         /\ FieldChild(n, field_id).sym = sym_node_id
         /\ Text(FieldChild(n, field_id)) = idText
    /\ Cardinality(Built(sym_property)) = nprops
    /\ \A p \in Built(sym_property) :
         HasField(p.prod, field_name) /\ FieldChild(p, field_name).sym = sym_property_name
    /\ \E h \in Built(sym_hex_color) : Text(h) = hexText

ConstraintParsed(doc, targetText, typeText) ==
  (input = doc /\ pc = "done") =>
    /\ outcome = "accepted" /\ diagnostics = 0
    /\ Cardinality(Built(sym_constraint_line)) = 1
    /\ \A n \in Built(sym_constraint_line) :
         /\ HasField(n.prod, field_target)
         /\ FieldChild(n, field_target).sym = sym_node_id
         /\ Text(FieldChild(n, field_target)) = targetText
         /\ HasField(n.prod, field_constraint_type)
         /\ FieldChild(n, field_constraint_type).sym = sym_identifier
         /\ Text(FieldChild(n, field_constraint_type)) = typeText

AnimBlockParsed(doc, triggerText, nprops) ==
  (input = doc /\ pc = "done") =>
    /\ outcome = "accepted" /\ diagnostics = 0
    /\ Cardinality(Built(sym_node_declaration)) = 1
    /\ Cardinality(Built(sym_anim_block)) = 1
    /\ \A d \in Built(sym_node_declaration) :
         Built(sym_anim_block) \subseteq NodesOf(d)
    /\ \A b \in Built(sym_anim_block) :
         /\ b.kids[1].sym = anon_sym_anim
         /\ HasField(b.prod, field_trigger)
         /\ FieldChild(b, field_trigger).sym = sym_anim_trigger
         /\ Text(FieldChild(b, field_trigger)) = triggerText
         /\ Cardinality({p \in NodesOf(b) : p.sym = sym_property}) = nprops
    /\ Cardinality(Built(sym_property)) = nprops

RecoveryStep ==
  /\ diagnostics' \in {diagnostics, diagnostics + 1}
  /\ (diagnostics' = diagnostics + 1) <=> (~recovering /\ recovering')
  /\ outcome' # "aborted"
  /\ last'.kind = "discard" =>
       /\ recovering /\ recovering' /\ stack' = stack
       /\ ShiftDepths(la.sym) = {}
  /\ last'.kind = "pop" =>
       /\ recovering /\ ~recovering' /\ la' = la
       /\ Len(stack') <= Len(stack) /\ stack' = SubSeq(stack, 1, Len(stack'))
       /\ \E a \in StepActions(stack'[Len(stack')].state, la.sym) : a.type = "shift"
  /\ last.kind = "pop" =>
       /\ last'.kind = "shift" /\ last'.sym = last.sym
       /\ Len(stack') = Len(stack) + 1

\* C8: after any Error the parser recovers and does not abort: it discards
\* tokens up to a token that some state on the stack can shift, pops the
\* stack to that state, shifts the token, and in the end finishes the
\* document; a step adds a diagnostic exactly when it enters recovery, one
\* per recovery event; and a malformed construct does not keep the rest of
\* the document from being parsed (`rect @a { w = 1 } path @b { }` has one
\* diagnostic and both declarations).
C8_Recovers ==
  /\ [][RecoveryStep]_vars
  /\ (recovering ~> (pc = "done" /\ outcome \in {"accepted", "recovered"}))
  /\ []((input = DocResume /\ pc = "done") =>
          /\ outcome = "accepted" /\ diagnostics = 1
          /\ Cardinality(Built(sym_node_declaration)) = 2)

\* an error was met, the stack was popped to a state that shifts the
\* synchronizing token, and the document was then parsed to its end
C8_Witness ==
  /\ input = DocResume /\ pc = "done" /\ outcome = "accepted"
  /\ diagnostics = 1 /\ ~recovering
  /\ Cardinality(Built(sym_node_declaration)) = 2

ItemSymbols == {sym_annotation, sym_style_block, sym_node_declaration, sym_constraint_line}
Items == {n \in TreeNodes : n.sym \in ItemSymbols}

\* The document parses without any syntax error to a document of n items
ItemsParsed(doc, n) ==
  (keep /\ input = doc /\ pc = "done") =>
    /\ outcome = "accepted" /\ diagnostics = 0
    /\ Cardinality(Built(sym_document)) = 1
    /\ Cardinality(Items) = n

\* C11 (as stated): every sequence of well-formed top-level items, the
\* empty one included, in any order and with any item following any other,
\* is accepted without a syntax error and yields one document child per
\* item: the empty document, an annotation followed by a node declaration,
\* three node declarations, and two constraint lines in a row
\* (`@a -> t: 1 @c -> t: 2`).
C11_Original ==
  /\ ItemsParsed(DocEmpty, 0)
  /\ ItemsParsed(DocAnnotatedNode, 2)
  /\ ItemsParsed(DocSeveral, 3)
  /\ ItemsParsed(DocTwoConstraints, 2)

Contains(outer, inner) ==
  \E n \in Built(outer) : \E k \in NodesOf(n) : k # n /\ k.sym = inner

\* The children of the reduce just made are all among the symbols
KidsAmong(symbols) == \A i \in 1..Len(last.kids) : last.kids[i] \in symbols

\* The documents that put a wrong item into a body
MisplacedItems ==
  {DocStyleInBody, DocStyleInText, DocConstraintInBody, DocNodeInStyle, DocNodeInAnim}

\* C13: inside a node body the parser accepts exactly four kinds of item, in
\* any order and number: annotations, nested node declarations (to any
\* nesting depth), properties and anim blocks.  A style block or a
\* constraint line inside a node body is a syntax error, and the bodies of
\* style blocks and anim blocks accept only properties.
C13_BodyItems ==
  /\ (last.kind = "reduce" /\ last.sym = sym_node_body_item) =>
       /\ Len(last.kids) = 1
       /\ last.kids[1] \in {sym_annotation, sym_node_declaration, sym_property, sym_anim_block}
  /\ (last.kind = "reduce" /\ last.sym = aux_sym_node_declaration_repeat1) =>
       KidsAmong({sym_node_body_item, aux_sym_node_declaration_repeat1})
  /\ (last.kind = "reduce" /\ last.sym = sym_node_declaration) =>
       KidsAmong({sym_node_kind, sym_node_id, sym_string, anon_sym_LBRACE, anon_sym_RBRACE,
                  sym_node_body_item, aux_sym_node_declaration_repeat1})
  /\ (last.kind = "reduce" /\ last.sym = aux_sym_style_block_repeat1) =>
       KidsAmong({sym_property, aux_sym_style_block_repeat1})
  /\ (last.kind = "reduce" /\ last.sym = sym_style_block) =>
       KidsAmong({anon_sym_style, sym_identifier, anon_sym_LBRACE, anon_sym_RBRACE,
                  sym_property, aux_sym_style_block_repeat1})
  /\ (last.kind = "reduce" /\ last.sym = sym_anim_block) =>
       KidsAmong({anon_sym_anim, sym_anim_trigger, anon_sym_LBRACE, anon_sym_RBRACE,
                  sym_property, aux_sym_style_block_repeat1})
  /\ keep =>
       /\ ~Contains(sym_node_declaration, sym_style_block)
       /\ ~Contains(sym_node_declaration, sym_constraint_line)
       /\ \A y \in {sym_annotation, sym_node_declaration, sym_anim_block, sym_style_block,
                    sym_constraint_line} :
            ~Contains(sym_style_block, y) /\ ~Contains(sym_anim_block, y)
  /\ (keep /\ input \in MisplacedItems /\ pc = "done") => diagnostics >= 1
  /\ (keep /\ input = DocNested /\ pc = "done") =>
       /\ outcome = "accepted" /\ diagnostics = 0
       /\ Cardinality(Built(sym_node_declaration)) = 3
       /\ \E a, b, c \in Built(sym_node_declaration) :
            /\ a # b /\ b # c /\ b \in NodesOf(a) /\ c \in NodesOf(b)
            /\ Text(FieldChild(c, field_id)) = <<64, 99>> (* @c *)
  /\ (keep /\ input = DocBodyItems /\ pc = "done") =>
       /\ outcome = "accepted" /\ diagnostics = 0
       /\ Cardinality(Built(sym_node_body_item)) = 5
       /\ \E d \in Built(sym_node_declaration) :
            \A y \in {sym_annotation, sym_node_declaration, sym_property, sym_anim_block} :
              \E k \in NodesOf(d) : k # d /\ k.sym = y

\* a body of five items, one of each kind and a second property, has been
\* parsed without any error
C13_Witness ==
  /\ keep /\ input = DocBodyItems /\ Clean
  /\ Cardinality(Built(sym_node_body_item)) = 5
  /\ Contains(sym_node_declaration, sym_anim_block)

\* ======================================================================
\* C14  style blocks
\* ======================================================================
\* The document parses cleanly to one top-level style_block with the given
\* name and number of properties
StyleBlockParsed(doc, nameText, nprops) ==
  (keep /\ input = doc /\ pc = "done") =>
    /\ outcome = "accepted" /\ diagnostics = 0
    /\ Cardinality(Built(sym_style_block)) = 1
    /\ \A b \in Built(sym_style_block) :
         /\ \E d \in Built(sym_document) : \E i \in 1..Len(d.kids) : d.kids[i] = b
         /\ HasField(b.prod, field_name)
         /\ FieldChild(b, field_name).sym = sym_identifier
         /\ FieldChild(b, field_name) = b.kids[2]
         /\ Text(FieldChild(b, field_name)) = nameText
         /\ Cardinality({p \in NodesOf(b) : p.sym = sym_property}) = nprops

\* C14: `style <identifier> { <property>* }` with zero or more properties
\* is accepted at top level and reduces to exactly one style_block node
\* whose field name is bound to the identifier that follows the `style`
\* keyword.
C14_StyleBlock ==
  /\ (last.kind = "reduce" /\ last.sym = sym_style_block) =>
       /\ Len(last.kids) \in {4, 5}
       /\ last.kids[1] = anon_sym_style /\ last.kids[2] = sym_identifier
       /\ last.kids[3] = anon_sym_LBRACE /\ last.kids[Len(last.kids)] = anon_sym_RBRACE
       /\ Len(last.kids) = 5 => last.kids[4] \in {sym_property, aux_sym_style_block_repeat1}
       /\ FieldEntries(last.prod, field_name) # {}
       /\ \A e \in FieldEntries(last.prod, field_name) : e.child_index = 1
  /\ StyleBlockParsed(DocStyleEmpty, <<115>> (* s *), 0)
  /\ StyleBlockParsed(DocStyle, <<99, 97, 114, 100>> (* card *), 2)

\* a style block of two properties has been parsed and bears its name
C14_Witness ==
  /\ keep /\ input = DocStyle /\ Clean
  /\ \E b \in Built(sym_style_block) :
       /\ Text(FieldChild(b, field_name)) = <<99, 97, 114, 100>> (* card *)
       /\ Cardinality({p \in NodesOf(b) : p.sym = sym_property}) = 2

\* ======================================================================
\* C15  properties
\* ======================================================================
\* What a value of a property is reduced from or shifted as
ValueSymbols ==
  {sym__value_item, sym_number, sym_hex_color, sym_string, sym_node_id, sym_key_value_pair}

KeywordSymbols ==
  (anon_sym_accept..anon_sym_style) \cup (anon_sym_group..anon_sym_duration) \cup {anon_sym_anim}

\* The parser stands where the grammar expects an identifier and no
\* keyword: after `@`, after `style`, after the colon of an anim trigger,
\* after `->`
IdentifierPosition ==
  /\ ~recovering /\ Len(stack) >= 2
  /\ \/ Top.node.sym \in {anon_sym_AT, anon_sym_style, anon_sym_DASH_GT}
     \/ /\ Top.node.sym = anon_sym_COLON
        /\ stack[Len(stack) - 1].node.sym = anon_sym_anim

\* The text of the lookahead token
TokenText == SubSeq(buf, la.start - pos + 1, la.end - pos)

\* C16: in grammar positions that expect an identifier and no keyword (the
\* name after `@` in a node id, the name after `style`, the anim trigger
\* name, the identifier after `->`), every reserved word (rect, style, fill,
\* anim, accept, ...) lexes as a plain identifier token, never as a keyword
\* token.
C16_PlainIdentifier ==
  /\ (last.kind = "start_lex" /\ IdentifierPosition) => lex_state = 8
  /\ (last.kind = "token" /\ IdentifierPosition) =>
       /\ la.sym \notin KeywordSymbols
       /\ la.sym \in {sym_identifier, sym_comment}
  /\ (keep /\ input = DocKeywordIds /\ pc = "done") =>
       /\ outcome = "accepted" /\ diagnostics = 0
       /\ {Text(n) : n \in Built(sym_identifier)}
            = {<<102, 105, 108, 108>> (* fill *), <<114, 101, 99, 116>> (* rect *), <<97, 99, 99, 101, 112, 116>> (* accept *), <<115, 116, 121, 108, 101>> (* style *), <<97, 110, 105, 109>> (* anim *)}
       /\ Cardinality(Built(anon_sym_style)) = 1 /\ Cardinality(Built(anon_sym_rect)) = 1
       /\ Cardinality(Built(anon_sym_anim)) = 1
       /\ Built(anon_sym_fill) = {} /\ Built(anon_sym_accept) = {}

\* the reserved word `rect` has been lexed after `@` as an identifier
C16_Witness ==
  /\ keep /\ input = DocKeywordIds
  /\ last.kind = "token" /\ IdentifierPosition /\ Top.node.sym = anon_sym_AT
  /\ la.sym = sym_identifier /\ TokenText = <<114, 101, 99, 116>> (* rect *)

\* ======================================================================
\* C17  words that begin with a reserved word
\* ======================================================================
\* The characters of an identifier: [A-Za-z0-9_]
IdentifierBytes == (48..57) \cup (65..90) \cup {95} \cup (97..122)

\* C17 (as stated): in every lexer mode, a keyword token is returned only
\* when the whole maximal run of identifier characters that starts at the
\* token start is exactly the reserved word: the byte that follows a
\* keyword token is never an identifier character, so that a longer word
\* that begins with a reserved word (`rectangle`, `styles`, `widthx`,
\* `wide`) never yields the keyword token for its prefix.
C17_Original ==
  (last.kind = "token" /\ la.sym \in KeywordSymbols) =>
    /\ la.end - pos < Len(buf) => buf[la.end - pos + 1] \notin IdentifierBytes
    /\ (keep /\ input = DocLongerWord) => TokenText # <<119, 105, 100, 116, 104>> (* width *)

\* ======================================================================
\* Tokens of the lexer taken alone
\* ======================================================================
\* The lex mode of the call, the bytes from the token start on, and a
\* call of ts_lex that has returned
LexMode == ts_lex_modes[CurState + 1]
Rest == SubSeq(buf, la.start - pos + 1, Len(buf))
Returned == last.kind \in {"token", "lex_fail"}

\* The length of the longest beginning of a text that has the form
Longest(Form(_), t) ==
  LET ks == {k \in 0..Len(t) : Form(SubSeq(t, 1, k))}
  IN  IF ks = {} THEN 0 - 1 ELSE CHOOSE k \in ks : \A j \in ks : j <= k

IsDigit(c) == c \in 48..57
IsHexDigit(c) == c \in (48..57) \cup (65..70) \cup (97..102)
AllDigits(t) == Len(t) >= 1 /\ \A i \in 1..Len(t) : IsDigit(t[i])

\* digits ('.' digits)? 'ms'?
UnsignedNumber(t) ==
  LET n == Len(t)
      u == IF n >= 2 /\ t[n - 1] = 109 /\ t[n] = 115 THEN SubSeq(t, 1, n - 2) ELSE t
  IN  \/ AllDigits(u)
      \/ \E k \in 2..(Len(u) - 1) :
           /\ u[k] = 46
           /\ AllDigits(SubSeq(u, 1, k - 1)) /\ AllDigits(SubSeq(u, k + 1, Len(u)))

\* '-'? digits ('.' digits)? 'ms'?
SignedNumber(t) ==
  \/ UnsignedNumber(t)
  \/ Len(t) >= 2 /\ t[1] = 45 /\ UnsignedNumber(Tail(t))

\* The lex modes that know the number and hex_color tokens
ValueModes == {0, 3, 4, 5, 115}

\* ======================================================================
\* C18  number tokens
\* ======================================================================
\* C18 (as amended): the strings the lexer returns as a number token are
\* exactly those of the form: an optional `-` sign, one or more decimal
\* digits, optionally followed by a single `.` and one or more digits,
\* optionally followed by the suffix `ms`; nothing else is part of a number
\* token.  Where numbers are lexed, the token is the longest such beginning
\* of the text at the token start.
C18_Number ==
  /\ (last.kind = "token" /\ la.sym = sym_number) =>
       /\ SignedNumber(TokenText)
       /\ LexMode \in ValueModes
  /\ (Returned /\ LexMode \in ValueModes /\ Longest(SignedNumber, Rest) > 0) =>
       /\ last.kind = "token" /\ la.sym = sym_number
       /\ Len(TokenText) = Longest(SignedNumber, Rest)

\* a number with a sign, a fraction and a unit has been returned
C18_Witness ==
  /\ last.kind = "token" /\ la.sym = sym_number
  /\ TokenText = <<45, 49, 46, 49, 109, 115>> (* -1.1ms *)

\* C18 (as stated): the strings the lexer returns as a number token are
\* exactly those of the form: one or more decimal digits, optionally
\* followed by a single `.` and one or more digits, optionally followed by
\* the suffix `ms`; nothing else, in particular no sign character, is part
\* of a number token.
C18_Original ==
  (last.kind = "token" /\ la.sym = sym_number) => UnsignedNumber(TokenText)

\* ======================================================================
\* C19  hex_color tokens
\* ======================================================================
\* '#' and 3 to 8 hex digits
HexColour(t) ==
  /\ Len(t) \in 4..9 /\ t[1] = 35
  /\ \A i \in 2..Len(t) : IsHexDigit(t[i])

\* 1 to 6 hex digits
BareHexDigits(t) == Len(t) \in 1..6 /\ \A i \in 1..Len(t) : IsHexDigit(t[i])

CommentModes == {0, 3, 4, 5, 8, 115, 116}

\* The text at the token start begins with a single `#`, not a doubled one
SingleHash == Len(Rest) >= 1 /\ Rest[1] = 35 /\ (Len(Rest) >= 2 => Rest[2] # 35)

\* The length of the beginning of a text that stops before the first of
\* the bytes, or at the end of the text
LengthBefore(stops, t) ==
  LET ks == {k \in 1..Len(t) : t[k] \in stops}
  IN  IF ks = {} THEN Len(t) ELSE (CHOOSE k \in ks : \A j \in ks : k <= j) - 1

DoubledAt ==
  {k \in 1..(LengthBefore({0, 10}, Rest) - 1) : Rest[k] = 35 /\ Rest[k + 1] = 35}

\* C21: a doubled `##` never starts a comment: in no lexer mode does ts_lex
\* return a comment token whose first two characters are `##`; inside a
\* comment or an annotation text that has already started, a `##` is
\* ordinary content of that same token and does not end it or start a new
\* token.
C21_DoubledHash ==
  /\ (last.kind = "token" /\ la.sym = sym_comment) =>
       ~(Len(TokenText) >= 2 /\ TokenText[1] = 35 /\ TokenText[2] = 35)
  /\ (last.kind = "token" /\ la.sym \in {sym_comment, sym_annotation_text}) =>
       \A k \in DoubledAt : Len(TokenText) >= k + 1

\* a comment with a `##` in it, and text after the `##`, has been returned
C21_Witness ==
  /\ last.kind = "token" /\ la.sym = sym_comment
  /\ TokenText = <<35, 97, 35, 35, 97>> (* #a##a *)

\* ======================================================================
\* C22  string contents
\* ======================================================================
\* C22: between an opening `"` and the next `"` every character, including
\* newlines, whitespace and `#`, belongs to one single string-content token
\* with no escape processing; `#` inside a string never starts a comment,
\* and every string node has exactly three children: opening quote,
\* content, closing quote.
C22_Original ==
  /\ (Returned /\ LexMode = 482) =>
       /\ last.kind = "token" /\ la.sym = aux_sym_string_token1
       /\ Len(TokenText) = LengthBefore({34}, Rest)
  /\ (last.kind = "reduce" /\ last.sym = sym_string) =>
       last.kids = <<anon_sym_DQUOTE, aux_sym_string_token1, anon_sym_DQUOTE>>

\* ======================================================================
\* C23  whitespace before a token
\* ======================================================================
\* space, tab, vertical tab, carriage return
Blank == {32, 9, 11, 13}

\* The lex modes of annotation bodies
AnnotationModes == {1, 2, 114}

\* The bytes the lexer skipped before the token start
Skipped == SubSeq(buf, 1, la.start - pos)

\* C23 (as amended): in every lexer mode other than string contents and
\* annotation bodies, space, tab, vertical tab and carriage return that
\* precede a token are skipped: they are never part of the span of any
\* returned token and no token consisting only of whitespace is ever
\* returned.  In the lexer modes of annotation bodies they are not skipped:
\* they begin the returned token and are part of its span, and an
\* annotation_text token consisting only of whitespace can be returned.
C23_Whitespace ==
  /\ (Returned /\ LexMode \in CommentModes) =>
       /\ \A i \in 1..Len(Skipped) : Skipped[i] \in Blank \cup {10, 12}
       /\ Len(Rest) >= 1 => Rest[1] \notin Blank
       /\ la.sym # ts_builtin_sym_end => Len(TokenText) >= 1
  /\ (Returned /\ LexMode \in AnnotationModes) =>
       /\ \A i \in 1..Len(Skipped) : Skipped[i] = 10
       /\ (Len(Rest) >= 1 /\ Rest[1] \in Blank) =>
            /\ last.kind = "token" /\ Len(TokenText) >= 1
            /\ (Len(Rest) = 1 \/ Rest[2] \in {0, 10}) => la.sym = sym_annotation_text

\* in a mode that skips, a token has been returned after a tab, a vertical
\* tab, a carriage return and a space
C23_Witness ==
  /\ LexMode \in CommentModes
  /\ last.kind = "token" /\ Skipped = <<9, 11, 13, 32>> /\ TokenText = <<97>> (* a *)

\* C23 (as stated): in every lexer mode other than string contents, space,
\* tab, vertical tab and carriage return that precede a token are skipped:
\* they are never part of the span of any returned token and no token
\* consisting only of whitespace is ever returned.
C23_Original ==
  (last.kind = "token" /\ LexMode # 482) =>
    /\ Len(TokenText) >= 1 => TokenText[1] \notin Blank
    /\ \E i \in 1..Len(TokenText) : TokenText[i] \notin Blank

\* ======================================================================
\* C24  tokens that run to the end of the line
\* ======================================================================
\* C24: an annotation_text token and a comment token never contain a
\* newline: each extends from its start over every following character up
\* to, but not including, the next newline or end of input, so a bare
\* newline always terminates them.
C24_Original ==
  (last.kind = "token" /\ la.sym \in {sym_comment, sym_annotation_text}) =>
    /\ \A i \in 1..Len(TokenText) : TokenText[i] # 10
    /\ Len(TokenText) = LengthBefore({10}, Rest)

\* ======================================================================
\* C25  a quoted annotation payload
\* ======================================================================
\* C25: where an annotation body could be read either as a quoted string or
\* as free text, the more specific, earlier-declared string alternative
\* wins: an annotation payload of the form `"..."` on one line is lexed as
\* opening quote, string content, closing quote and reduced to a string
\* node, not returned as one annotation_text token.
C25_Original ==
  /\ (keep /\ input = DocQuotedAnnotation /\ last.kind = "token") =>
       la.sym # sym_annotation_text
  /\ (keep /\ input = DocQuotedAnnotation /\ Done) =>
       \E n \in Built(sym_annotation) : \E i \in 1..Len(n.kids) : n.kids[i].sym = sym_string

\* ======================================================================
\* C26  spans of the shifted tokens
\* ======================================================================
\* The tokens under a node, in their order
RECURSIVE LeavesOf(_)
LeavesOf(n) ==
  IF n.sym \in Terminals THEN <<n>>
  ELSE LET upto[i \in 0..Len(n.kids)] ==
             IF i = 0 THEN <<>> ELSE upto[i - 1] \o LeavesOf(n.kids[i])
       IN  upto[Len(n.kids)]

\* The shifted tokens that the stack holds, in the order of their shifts
Shifted ==
  LET upto[i \in 1..Len(stack)] ==
        IF i = 1 THEN <<>> ELSE upto[i - 1] \o LeavesOf(stack[i].node)
  IN  upto[Len(stack)]

\* C26: across the sequence of tokens that the parser shifts during one
\* parse, spans never overlap and strictly advance: each token starts at or
\* after the end of the previously shifted token, and a token is never
\* shifted twice.
C26_Spans ==
  /\ Parsing => pos <= la.start /\ la.start <= la.end
  /\ keep =>
       /\ \A i, j \in 1..Len(Shifted) :
            i < j => Shifted[i].end <= Shifted[j].start /\ Shifted[i] # Shifted[j]
       /\ \A i \in 1..Len(Shifted) :
            Shifted[i].start <= Shifted[i].end /\ Shifted[i].end <= pos

\* a document with an empty string has been parsed: its content token has
\* no length and lies between the two quotes
C26_Witness ==
  /\ keep /\ input = DocEmptyString /\ Clean
  /\ Len(Shifted) = 6
  /\ Shifted[3].sym = aux_sym_string_token1 /\ Shifted[3].start = Shifted[3].end
  /\ Shifted[4].start = Shifted[3].end

\* ======================================================================
\* C27  field bindings of a production
\* ======================================================================
\* The indexes into ts_field_map_entries of the slice of a production id
SliceIndexes(prod) ==
  LET sl == ts_field_map_slices[prod]
  IN  sl.index..(sl.index + sl.length - 1)

\* C27: field bindings are injective within every production variant: among
\* the field-map entries of one production id no field name occurs twice
\* and no child index is bound to two field names.
C27_FieldMap ==
  (last.kind = "reduce") =>
    \A i, j \in SliceIndexes(last.prod) :
      i # j =>
        /\ ts_field_map_entries[i].field_id # ts_field_map_entries[j].field_id
        /\ ts_field_map_entries[i].child_index # ts_field_map_entries[j].child_index

\* a node declaration with an id and an inline text has been reduced: its
\* production binds three fields
C27_Witness ==
  /\ last.kind = "reduce" /\ last.sym = sym_node_declaration
  /\ Cardinality(SliceIndexes(last.prod)) = 3

\* ======================================================================
\* C28  Accept
\* ======================================================================
\* The symbols on which a state has the ACCEPT_INPUT entry
AcceptsOn(state) ==
  {y \in Terminals : \E a \in StepActions(state, y) : a.type = "accept"}

\* C28: Accept happens only when the top-level document production has been
\* fully reduced and the lookahead is end of input: the Accept action is
\* reachable in exactly one parse state, the one entered by the goto on
\* document from the start state, and only on the end-of-input token; no
\* input with unconsumed non-comment tokens is accepted.
C28_Accept ==
  /\ AcceptsOn(CurState) # {} =>
       /\ CurState = NextState(1, sym_document)
       /\ AcceptsOn(CurState) = {ts_builtin_sym_end}
  /\ last.kind = "accept" =>
       /\ outcome = "accepted"
       /\ la.sym = ts_builtin_sym_end
       /\ Len(stack) = 2 /\ stack[1].state = 1 /\ stack[2].node.sym = sym_document
       /\ stack[2].state = NextState(1, sym_document)
       /\ la.start = pos + Len(buf)
       /\ \A i \in 1..Len(buf) : buf[i] \in 9..13 \cup {32}
  /\ outcome = "accepted" => last.kind = "accept"

\* an input with a comment has been accepted; whitespace after its last
\* token is all that was not consumed
C28_Witness ==
  /\ last.kind = "accept" /\ comments > 0 /\ Len(buf) > 0

\* ======================================================================
\* C30  consistency of the tables
\* ======================================================================
\* The reduce actions the tables give for the state and the lookahead
DueReduces ==
  IF Parsing /\ ~recovering
  THEN {a \in StepActions(CurState, la.sym) : a.type = "reduce"}
  ELSE {}

\* C30: no input can drive the automaton into a table inconsistency: in
\* every parser configuration reachable from the start state, a Reduce of n
\* children finds at least n entries above the bottom of the stack, and the
\* state exposed after popping them has a goto entry for the reduced
\* symbol.
C30_Consistent ==
  /\ \A a \in DueReduces :
       /\ Len(stack) - 1 >= a.child_count
       /\ NextState(stack[Len(stack) - a.child_count].state, a.symbol) # 0
  /\ last.kind # "abort" /\ outcome # "aborted"

\* after a syntax error and its recovery, a reduce of five or more children
\* is due
C30_Witness ==
  /\ diagnostics > 0
  /\ \E a \in DueReduces : a.child_count >= 5

\* ======================================================================
\* C31  lexing and parsing in lockstep
\* ======================================================================
\* One step of the engine, as the lockstep of lexer and parser shapes it
LockStep ==
  /\ last'.kind = "start_lex" =>
       /\ la = NoToken
       /\ last.kind \in {"init", "shift", "shift_extra", "discard"}
  /\ last'.kind = "reduce" =>
       /\ la' = la /\ pos' = pos /\ buf' = buf
       /\ pc' = "parse" /\ lexvars' = lexvars
  /\ la' # la =>
       last'.kind \in {"token", "lex_fail", "shift", "shift_extra", "discard"}

LexSucc ==
  [s \in 0..484 |->
     {r.state : r \in {x \in {ts_lex_switch(s, c, FALSE) : c \in 0..255}
                               \cup {ts_lex_switch(s, 0, TRUE)} :
                         x.kind \in {"advance", "skip"}}}]

\* What ts_lex does in a state at the end of input
LexAtEnd == [s \in 0..484 |-> ts_lex_switch(s, 0, TRUE)]

\* The lexer states that ts_lex can come to, from those found and those to
\* follow up
RECURSIVE LexReach(_, _)
LexReach(found, todo) ==
  IF todo = {} THEN found
  ELSE LexReach(found \cup todo,
                UNION {LexSucc[s] : s \in todo} \ (found \cup todo))

\* The tokens ts_lex returns on some input when started in a lex mode: the
\* input leads to a state that accepts the token and ends there
Returnable ==
  [m \in {ts_lex_modes[s + 1] : s \in States} |->
     {LexAtEnd[s].symbol :
        s \in {x \in LexReach({}, {m}) : LexAtEnd[x].result /\ LexAtEnd[x].kind = "end"}}]

\* The tokens some state of ts_lex accepts that a lex mode leads to
Acceptable ==
  [m \in {ts_lex_modes[s + 1] : s \in States} |->
     {LexAtEnd[s].symbol : s \in {x \in LexReach({}, {m}) : LexAtEnd[x].result}}]

\* The terminals a parse state shifts or reduces on, the extra tokens apart
Expected(state) ==
  {t \in Terminals :
     \E a \in StepActions(state, t) :
       \/ a.type = "reduce"
       \/ a.type = "shift" /\ ~a.extra}

\* The terminals a parse state has a shift, shift-extra or reduce action for
ExpectedOrExtra(state) ==
  {t \in Terminals :
     \E a \in StepActions(state, t) : a.type \in {"shift", "reduce"}}

\* C32 (as amended): the lexer mode used for a token is a function of the
\* current parse state alone (ts_lex_modes), and it is adequate for that
\* state: for every parse state S other than the error state 0 and every
\* terminal t for which S has a shift action that is not the shift-extra
\* of a comment, or a reduce action, there is an input on which ts_lex
\* started in mode ts_lex_modes[S] returns t.  The states of annotation
\* bodies and of string contents have the shift-extra action for the
\* comment token, but in their lex modes ts_lex returns a comment on no
\* input.
C32_Adequate ==
  /\ last.kind = "start_lex" => lex_state = ts_lex_modes[CurState + 1]
  /\ \A i \in 1..Len(stack) :
       LET S == stack[i].state
           mode == ts_lex_modes[S + 1]
       IN  /\ Expected(S) \subseteq Returnable[mode]
           /\ mode \in AnnotationModes \cup {482} =>
                /\ sym_comment \in ExpectedOrExtra(S)
                /\ sym_comment \notin Acceptable[mode]

\* the state after a `##` is on the stack: it expects the annotation
\* keywords, and its lex mode returns them
C32_Witness ==
  /\ ts_lex_modes[Top.state + 1] = 114
  /\ anon_sym_accept \in Expected(Top.state)
  /\ anon_sym_accept \in Returnable[114]

\* C32 (as stated): for every parse state S other than the error state 0
\* and every terminal t for which S has a shift or reduce action, there is
\* an input on which ts_lex started in mode ts_lex_modes[S] returns t.
C32_Original ==
  \A i \in 1..Len(stack) :
    ExpectedOrExtra(stack[i].state) \subseteq Acceptable[ts_lex_modes[stack[i].state + 1]]

\* ======================================================================
\* C33  hex_color only in value positions
\* ======================================================================
\* The parse states inside a value list: those that take a value token
ValueStates ==
  {S \in States \ {0} : {sym_hex_color, sym_number} \subseteq Expected(S)}

\* C33: a hex_color token is produced only in value positions: ts_lex can
\* return hex_color only when started in a lexer mode that ts_lex_modes
\* assigns to parse states inside a property or constraint value list (or
\* to the error state 0), never in the structural mode 116, the
\* identifier-only mode 8, the annotation-body modes 1, 2, 114 or the
\* string mode 482.
C33_ValuePosition ==
  /\ (last.kind = "token" /\ la.sym = sym_hex_color) =>
       /\ LexMode \notin {116, 8, 1, 2, 114, 482}
       /\ \A S \in States : ts_lex_modes[S + 1] = LexMode => S \in ValueStates \cup {0}
  /\ LexMode \in {116, 8, 1, 2, 114, 482} =>
       /\ sym_hex_color \notin Acceptable[LexMode]
       /\ \A S \in States : ts_lex_modes[S + 1] = LexMode => S \notin ValueStates

\* a hex_color has been returned in the lex mode of the states after a
\* value of a constraint line
C33_Witness ==
  /\ LexMode = 115 /\ CurState \in ValueStates
  /\ last.kind = "token" /\ la.sym = sym_hex_color /\ TokenText = <<35, 97, 49, 97>> (* #a1a *)

\* ======================================================================
\* C34  comments are extras
\* ======================================================================
\* The shape of a tree: symbols, productions and children, without spans
RECURSIVE ShapeOf(_)
ShapeOf(n) ==
  [sym |-> n.sym, prod |-> n.prod, kids |-> [i \in 1..Len(n.kids) |-> ShapeOf(n.kids[i])]]

TokenShape(y) == [sym |-> y, prod |-> 0, kids |-> <<>>]
NodeShape(y, p, kids) == [sym |-> y, prod |-> p, kids |-> kids]

\* The tree of `rect @a { w: 1 }`
PlainShape ==
  NodeShape(sym_document, 0, <<
    NodeShape(sym_node_declaration, 4, <<
      NodeShape(sym_node_kind, 0, <<TokenShape(anon_sym_rect)>>),
      NodeShape(sym_node_id, 0, <<TokenShape(anon_sym_AT), TokenShape(sym_identifier)>>),
      TokenShape(anon_sym_LBRACE),
      NodeShape(sym_node_body_item, 0, <<
        NodeShape(sym_property, 6, <<
          NodeShape(sym_property_name, 0, <<TokenShape(anon_sym_w)>>),
          TokenShape(anon_sym_COLON),
          TokenShape(sym_number)>>)>>),
      TokenShape(anon_sym_RBRACE)>>)>>)

\* One step of the engine, as the shift of an extra token shapes it
ExtraStep ==
  last'.kind = "shift_extra" =>
    /\ la.sym = sym_comment /\ la' = NoToken /\ pos' = la.end
    /\ stack' = stack /\ recovering' = recovering
    /\ comments' = comments + 1 /\ diagnostics' = diagnostics

\* C34: every parse state has a shift-extra action for the comment token:
\* shifting a comment leaves the current parse state and the non-extra
\* symbols on the stack unchanged, so a comment token occurring between two
\* tokens never changes which actions follow or the shape of the tree apart
\* from the comment node itself.
C34_Extras ==
  /\ []( \A S \in {stack[i].state : i \in 1..Len(stack)} \cup {CurState} :
           \A a \in StepActions(S, sym_comment) : a.type = "shift" /\ a.extra )
  /\ []( \A S \in {stack[i].state : i \in 1..Len(stack)} \cup {CurState} :
           StepActions(S, sym_comment) # {} )
  /\ [][ExtraStep]_vars
  /\ []( (keep /\ input \in {DocUncommented, DocCommented} /\ Done) =>
           /\ Clean /\ Len(stack) = 2
           /\ ShapeOf(stack[2].node) = PlainShape
           /\ comments = IF input = DocCommented THEN 2 ELSE 0 )

\* the document with two comments has been parsed: both were shifted as
\* extras, one of them between a node id and the `{`
C34_Witness ==
  /\ keep /\ input = DocCommented /\ Clean /\ comments = 2
  /\ ShapeOf(stack[2].node) = PlainShape

\* ======================================================================
\* C35  balanced braces
\* ======================================================================
\* The number of shifted tokens of a symbol that the stack holds
Count(y) == Cardinality({i \in 1..Len(Shifted) : Shifted[i].sym = y})

\* No error has been reported and none is being recovered from
ErrorFree == diagnostics = 0 /\ missing = 0 /\ ~recovering

\* C35: braces are balanced in every error-free parse: after any prefix of
\* shifts the number of `}` tokens shifted never exceeds the number of `{`
\* tokens shifted, and at Accept the two numbers are equal.
C35_Balanced ==
  /\ ErrorFree => Count(anon_sym_RBRACE) <= Count(anon_sym_LBRACE)
  /\ (ErrorFree /\ Done /\ outcome = "accepted") =>
       Count(anon_sym_RBRACE) = Count(anon_sym_LBRACE)

\* three nested bodies have been opened and closed, and the parse accepted
C35_Witness ==
  /\ keep /\ input = DocNested /\ ErrorFree /\ Done /\ outcome = "accepted"
  /\ Count(anon_sym_LBRACE) = 3 /\ Count(anon_sym_RBRACE) = 3

\* ======================================================================
\* C36  field bindings
\* ======================================================================
\* The symbol that the child bound to a field of a node has
FieldKind(parent, f) ==
  CASE f = field_kind -> {sym_node_kind}
    [] f = field_id -> {sym_node_id}
    [] f = field_target -> {sym_node_id}
    [] f = field_inline_text -> {sym_string}
    [] f = field_constraint_type -> {sym_identifier}
    [] f = field_key -> {sym_annotation_keyword}
    [] f = field_trigger -> {sym_anim_trigger}
    [] f = field_name ->
         IF parent = sym_style_block THEN {sym_identifier}
         ELSE IF parent = sym_property THEN {sym_property_name}
         ELSE {}
    [] OTHER -> Symbols

\* C36: every field binding points at an existing child of the right kind:
\* for every Reduce action with child count n and production id p, each
\* field-map entry of p has child index < n, and the child at that index is
\* a node_kind for kind, a node_id for id and target, a string for
\* inline_text, an identifier for a style name and for constraint_type, a
\* property_name for a property name, an annotation_keyword for key and an
\* anim_trigger for trigger.
C36_Bindings ==
  (last.kind = "reduce") =>
    \A i \in SliceIndexes(last.prod) :
      LET e == ts_field_map_entries[i]
      IN  /\ e.child_index < last.n
          /\ last.kids[e.child_index + 1] \in FieldKind(last.sym, e.field_id)

\* a constraint line has been reduced: its target is child 0, a node id,
\* and its constraint type child 2, an identifier
C36_Witness ==
  /\ last.kind = "reduce" /\ last.sym = sym_constraint_line /\ last.n = 5
  /\ Cardinality(SliceIndexes(last.prod)) = 2
  /\ last.kids[1] = sym_node_id /\ last.kids[3] = sym_identifier

\* ======================================================================
\* C37  key = value
\* ======================================================================
\* The states that shift `=`, and the states that the shift of `=` enters
KeyStates ==
  {S \in States \ {0} : \E a \in StepActions(S, anon_sym_EQ) : a.type = "shift"}
PairStates ==
  {a.state : a \in UNION {StepActions(S, anon_sym_EQ) : S \in KeyStates}}

\* The values of a pair, and the tokens they begin with
PairValues == {sym_identifier, sym_number, sym_hex_color, sym_string}
PairStarts == {sym_identifier, sym_number, sym_hex_color, anon_sym_DQUOTE}

\* The key_value_pair nodes under the property and constraint_line nodes
PairsInLists ==
  UNION {NodesOf(n) : n \in Built(sym_property) \cup Built(sym_constraint_line)}

\* C37 (as amended): inside a property or constraint value list, an
\* identifier followed by `=` and then an identifier, number, hex_color or
\* string is reduced to one key_value_pair node with exactly three children.
\* An `=` is shifted only in the parse state entered by shifting such an
\* identifier, whatever follows it: when no value follows the shifted `=`,
\* that is a syntax error.  In every other state (after a property name,
\* after a number, at top level) `=` has no action and is a syntax error.
C37_KeyValue ==
  /\ (last.kind = "reduce" /\ last.sym = sym_key_value_pair) =>
       /\ last.n = 3
       /\ last.kids[1] = sym_identifier /\ last.kids[2] = anon_sym_EQ
       /\ last.kids[3] \in PairValues
  /\ (last.kind = "shift" /\ last.state \in KeyStates) => last.sym = sym_identifier
  /\ (last.kind = "reduce") => last.state \notin KeyStates
  /\ (last.kind = "shift" /\ last.sym = anon_sym_EQ) =>
       /\ Len(stack) > 2
       /\ stack[Len(stack) - 1].state \in KeyStates
       /\ Top.state \in PairStates
  /\ (Parsing /\ ~recovering /\ la.sym = anon_sym_EQ /\ CurState \notin KeyStates) =>
       StepActions(CurState, anon_sym_EQ) = {}
  /\ (Parsing /\ ~recovering /\ CurState \in PairStates) =>
       IF la.sym \in PairStarts
       THEN \E a \in StepActions(CurState, la.sym) : a.type = "shift" /\ ~a.extra
       ELSE la.sym # sym_comment => StepActions(CurState, la.sym) = {}
  /\ (keep /\ Done) => Built(sym_key_value_pair) \subseteq PairsInLists

\* four pairs, one with each kind of value, have been built in the value
\* lists of a property and of a constraint
C37_Witness ==
  /\ keep /\ input = DocPairs /\ Clean
  /\ Cardinality(Built(sym_key_value_pair)) = 4
  /\ {n.kids[3].sym : n \in Built(sym_key_value_pair)} = PairValues
  /\ \A n \in Built(sym_key_value_pair) : Len(n.kids) = 3

\* C37 (as stated): an `=` is shifted only where exactly one value follows it
C37_Original ==
  (Parsing /\ ~recovering /\ CurState \in PairStates) =>
     la.sym \in PairStarts \cup {sym_comment}

\* ======================================================================
\* C38  free text wins in annotation bodies
\* ======================================================================
\* What follows the returned token is a newline or the end of the input
LineEnds ==
  IF la.end - pos < Len(buf) THEN buf[la.end - pos + 1] = 10 ELSE closed

\* C38: in the annotation-body lexer modes (1, 2 and 114) longest match
\* always favours free text: a keyword token (accept, status, priority, tag,
\* a shape or property keyword), a `"`, `@`, `}` or `##` token is returned
\* only when it is immediately followed by a newline or end of input; if any
\* other character follows on the same line, the whole rest of the line is
\* returned as a single annotation_text token.
C38_Original ==
  (last.kind = "token" /\ LexMode \in AnnotationModes
     /\ la.sym # ts_builtin_sym_end) =>
    /\ la.sym # sym_annotation_text => LineEnds
    /\ ~LineEnds =>
         /\ la.sym = sym_annotation_text
         /\ Len(TokenText) = LengthBefore({10}, Rest)
====
